---- MODULE Spec2Model ----
(***************************************************************************)
(* A model of the calendar subscription slice of sargaux.com:              *)
(*   - the token codec of src/lib/calendar.ts (generateToken, verifyToken) *)
(*   - the feed endpoint GET /api/calendar/[token].ics                     *)
(*   - the upstream lookups of src/lib/notion.ts the endpoint makes        *)
(*   - the feed builder buildICS and the time parser parseTime             *)
(* and of the guest site around it:                                        *)
(*   - sessions (src/lib/auth.ts), the middleware (src/middleware.ts)      *)
(*   - the login, logout and RSVP endpoints and the RSVP database          *)
(*                                                                         *)
(* A JavaScript string is a sequence of UTF-16 code units (naturals).      *)
(* A Buffer is a sequence of bytes (0..255).                               *)
(***************************************************************************)
EXTENDS Integers, Sequences, FiniteSets, TLC

(***************************************************************************)
(* Bounds of the model.                                                    *)
(***************************************************************************)
\* longest guest identifier, in code units
MaxIdLen == 2
\* number of distinct configured signing secrets (0 is "not configured")
NumSecrets == 2

(***************************************************************************)
(* Values a call can produce: a value, null/undefined, or a thrown error.  *)
(***************************************************************************)
Some(v) == [tag |-> "value", val |-> v]
Null == [tag |-> "null", val |-> <<>>]
Thrown == [tag |-> "throw", val |-> <<>>]

(***************************************************************************)
(* Code units used below.                                                  *)
(***************************************************************************)
DOT == 46
PLUS == 43
MINUS == 45
SLASH == 47
UNDERSCORE == 95
EQUALS == 61
REPLACEMENT == 65533

IsHighSurrogate(u) == u >= 55296 /\ u <= 56319
IsLowSurrogate(u) == u >= 56320 /\ u <= 57343

(***************************************************************************)
(* Generic string helpers (String.prototype.replace with a /g pattern of   *)
(* one character, indexOf, slice, repeat).                                 *)
(***************************************************************************)
ReplaceAll(s, from, to) == [i \in 1..Len(s) |-> IF s[i] = from THEN to ELSE s[i]]

RemoveAll(s, c) == SelectSeq(s, LAMBDA x : x # c)

\* 0-based index of the first c in s, or -1
IndexOf(s, c) ==
  IF \E i \in 1..Len(s) : s[i] = c
    THEN (CHOOSE i \in 1..Len(s) : s[i] = c /\ \A j \in 1..(i - 1) : s[j] # c) - 1
    ELSE -1

Repeat(c, n) == [i \in 1..n |-> c]

(***************************************************************************)
(* Buffer.from(string): UTF-8 encoding of a sequence of UTF-16 code units. *)
(* An unpaired surrogate is encoded as U+FFFD (EF BF BD).                  *)
(***************************************************************************)
RECURSIVE Utf8Encode(_)
Utf8Encode(s) ==
  IF s = <<>> THEN <<>>
  ELSE
    LET u == Head(s) IN
    IF u < 128 THEN <<u>> \o Utf8Encode(Tail(s))
    ELSE IF u < 2048 THEN <<192 + (u \div 64), 128 + (u % 64)>> \o Utf8Encode(Tail(s))
    ELSE IF IsHighSurrogate(u) /\ Len(s) >= 2 /\ IsLowSurrogate(s[2]) THEN
      LET cp == 65536 + (u - 55296) * 1024 + (s[2] - 56320) IN
        <<240 + (cp \div 262144), 128 + ((cp \div 4096) % 64),
          128 + ((cp \div 64) % 64), 128 + (cp % 64)>> \o Utf8Encode(Tail(Tail(s)))
    ELSE IF IsHighSurrogate(u) \/ IsLowSurrogate(u) THEN
      <<239, 191, 189>> \o Utf8Encode(Tail(s))
    ELSE <<224 + (u \div 4096), 128 + ((u \div 64) % 64), 128 + (u % 64)>>
           \o Utf8Encode(Tail(s))

(***************************************************************************)
(* buffer.toString('utf-8'): UTF-8 decoding with U+FFFD for every maximal  *)
(* ill-formed subpart; code points above U+FFFF become surrogate pairs.    *)
(***************************************************************************)
CodePointUnits(cp) ==
  IF cp < 65536 THEN <<cp>>
  ELSE <<55296 + ((cp - 65536) \div 1024), 56320 + ((cp - 65536) % 1024)>>

InRange(b, i, lo, hi) == i <= Len(b) /\ b[i] >= lo /\ b[i] <= hi

RECURSIVE Utf8DecodeFrom(_, _)
Utf8DecodeFrom(b, i) ==
  IF i > Len(b) THEN <<>>
  ELSE
    LET c == b[i] IN
    IF c < 128 THEN <<c>> \o Utf8DecodeFrom(b, i + 1)
    ELSE IF c >= 194 /\ c <= 223 THEN
      IF InRange(b, i + 1, 128, 191)
        THEN <<(c - 192) * 64 + (b[i + 1] - 128)>> \o Utf8DecodeFrom(b, i + 2)
        ELSE <<REPLACEMENT>> \o Utf8DecodeFrom(b, i + 1)
    ELSE IF c >= 224 /\ c <= 239 THEN
      LET lo == IF c = 224 THEN 160 ELSE 128
          hi == IF c = 237 THEN 159 ELSE 191 IN
      IF ~InRange(b, i + 1, lo, hi) THEN <<REPLACEMENT>> \o Utf8DecodeFrom(b, i + 1)
      ELSE IF ~InRange(b, i + 2, 128, 191) THEN <<REPLACEMENT>> \o Utf8DecodeFrom(b, i + 2)
      ELSE <<(c - 224) * 4096 + (b[i + 1] - 128) * 64 + (b[i + 2] - 128)>>
             \o Utf8DecodeFrom(b, i + 3)
    ELSE IF c >= 240 /\ c <= 244 THEN
      LET lo == IF c = 240 THEN 144 ELSE 128
          hi == IF c = 244 THEN 143 ELSE 191 IN
      IF ~InRange(b, i + 1, lo, hi) THEN <<REPLACEMENT>> \o Utf8DecodeFrom(b, i + 1)
      ELSE IF ~InRange(b, i + 2, 128, 191) THEN <<REPLACEMENT>> \o Utf8DecodeFrom(b, i + 2)
      ELSE IF ~InRange(b, i + 3, 128, 191) THEN <<REPLACEMENT>> \o Utf8DecodeFrom(b, i + 3)
      ELSE CodePointUnits((c - 240) * 262144 + (b[i + 1] - 128) * 4096
                            + (b[i + 2] - 128) * 64 + (b[i + 3] - 128))
             \o Utf8DecodeFrom(b, i + 4)
    ELSE <<REPLACEMENT>> \o Utf8DecodeFrom(b, i + 1)

Utf8Decode(b) == Utf8DecodeFrom(b, 1)

(***************************************************************************)
(* buffer.toString('base64'): standard alphabet, '=' padding.              *)
(***************************************************************************)
Base64Char(v) ==
  IF v < 26 THEN 65 + v
  ELSE IF v < 52 THEN 97 + (v - 26)
  ELSE IF v < 62 THEN 48 + (v - 52)
  ELSE IF v = 62 THEN PLUS ELSE SLASH

RECURSIVE Base64Encode(_)
Base64Encode(b) ==
  IF Len(b) = 0 THEN <<>>
  ELSE IF Len(b) = 1 THEN
    <<Base64Char(b[1] \div 4), Base64Char((b[1] % 4) * 16), EQUALS, EQUALS>>
  ELSE IF Len(b) = 2 THEN
    <<Base64Char(b[1] \div 4), Base64Char((b[1] % 4) * 16 + (b[2] \div 16)),
      Base64Char((b[2] % 16) * 4), EQUALS>>
  ELSE
    <<Base64Char(b[1] \div 4), Base64Char((b[1] % 4) * 16 + (b[2] \div 16)),
      Base64Char((b[2] % 16) * 4 + (b[3] \div 64)), Base64Char(b[3] % 64)>>
      \o Base64Encode(SubSeq(b, 4, Len(b)))

(***************************************************************************)
(* Buffer.from(string, 'base64'): the decoder never throws.  It accepts    *)
(* both the standard and the URL-safe alphabet, skips every character that *)
(* is in neither (whitespace included), stops at the first '=' and drops a *)
(* trailing group of one character and the unused low bits of a trailing   *)
(* group of two or three.  First segments in this model are ASCII.         *)
(***************************************************************************)
\* the 6-bit value of a base64 character, or -1 for a character outside the alphabets
Unbase64(c) ==
  IF c >= 65 /\ c <= 90 THEN c - 65
  ELSE IF c >= 97 /\ c <= 122 THEN c - 97 + 26
  ELSE IF c >= 48 /\ c <= 57 THEN c - 48 + 52
  ELSE IF c = PLUS \/ c = MINUS THEN 62
  ELSE IF c = SLASH \/ c = UNDERSCORE THEN 63
  ELSE -1

RECURSIVE Base64Groups(_)
Base64Groups(v) ==
  IF Len(v) < 2 THEN <<>>
  ELSE IF Len(v) = 2 THEN <<v[1] * 4 + (v[2] \div 16)>>
  ELSE IF Len(v) = 3 THEN <<v[1] * 4 + (v[2] \div 16), (v[2] % 16) * 16 + (v[3] \div 4)>>
  ELSE <<v[1] * 4 + (v[2] \div 16), (v[2] % 16) * 16 + (v[3] \div 4),
         (v[3] % 4) * 64 + v[4]>> \o Base64Groups(SubSeq(v, 5, Len(v)))

Base64Decode(s) ==
  LET stop == IndexOf(s, EQUALS)
      body == IF stop = -1 THEN s ELSE SubSeq(s, 1, stop)
      vals == [i \in 1..Len(body) |-> Unbase64(body[i])]
  IN Base64Groups(SelectSeq(vals, LAMBDA v : v >= 0))

(***************************************************************************)
(* toBase64Url / fromBase64Url                                             *)
(***************************************************************************)
ToBase64Url(input) ==
  RemoveAll(ReplaceAll(ReplaceAll(Base64Encode(Utf8Encode(input)), PLUS, MINUS),
                       SLASH, UNDERSCORE), EQUALS)

\* a decoder that reads the bytes as Latin-1 instead of UTF-8
FromBase64Url_Latin1(input) ==
  LET padded == ReplaceAll(ReplaceAll(input, MINUS, PLUS), UNDERSCORE, SLASH)
      pad == Len(padded) % 4
      b64 == IF pad = 0 THEN padded ELSE padded \o Repeat(EQUALS, 4 - pad)
  IN Some(Base64Decode(b64))

\* The catch branch (null) is never taken: neither the replacements nor the
\* decoding can throw.
FromBase64Url(input) ==
  LET padded == ReplaceAll(ReplaceAll(input, MINUS, PLUS), UNDERSCORE, SLASH)
      pad == Len(padded) % 4
      b64 == IF pad = 0 THEN padded ELSE padded \o Repeat(EQUALS, 4 - pad)
  IN Some(Utf8Decode(Base64Decode(b64)))

(***************************************************************************)
(* State.                                                                  *)
(***************************************************************************)
VARIABLES
  secret,        \* process.env.CALENDAR_HMAC_SECRET: 0 when unset or empty, else 1..NumSecrets
  held,          \* the subscription link one subscriber stored: guest, token, secret at issue
  last,          \* the last operation: its inputs and what it returned
  dayDateCache,  \* notion.ts dayDateCache: day page id -> date or undefined
  now,           \* the wall clock Date reads, as an index into ClockValues
  feedIn,        \* the occurrence list last given to buildICS
  feedOut,       \* what buildICS returned for it
  feedAgain,     \* what a second call on the same list returned
  flags,         \* the build's feature flags: weddingSiteEnabled, notionBackend
  jar,           \* the sargaux_auth cookie one browser holds
  rsvpStore,     \* the pages of the RSVP Responses database, oldest first
  web,           \* the last HTTP exchange: the request and what answered it
  issued,        \* the session tokens POST /api/login has set so far
  guestCache,        \* notion.ts guestCache: null or the array a fetch produced
  guestCachePromise, \* notion.ts guestCachePromise: 0 for null, else the fetch it follows
  fetches,           \* the calls of _fetchAllGuests so far, in order of their start
  calls,             \* the calls of fetchAllGuests so far: what each one returned
  clears,            \* how often clearGuestCache has been called
  eventCatalogCache, \* notion.ts eventCatalogCache: wedding -> events, or absent
  catalogCalls,      \* the calls of getEventCatalog so far
  submits            \* the calls of submitRSVP so far

calendar == <<secret, held, last, dayDateCache, now, feedIn, feedOut, feedAgain>>
site == <<flags, jar, rsvpStore, web, issued>>
library == <<guestCache, guestCachePromise, fetches, calls, clears,
             eventCatalogCache, catalogCalls, submits>>
vars == <<secret, held, last, dayDateCache, now, feedIn, feedOut, feedAgain,
          flags, jar, rsvpStore, web, issued,
          guestCache, guestCachePromise, fetches, calls, clears,
          eventCatalogCache, catalogCalls, submits>>

(***************************************************************************)
(* computeHmac.  createHmac('sha256', secret).update(guestId).digest('hex')*)
(* is modelled as an ideal keyed digest: a deterministic string of         *)
(* lowercase hex digits that differs whenever the secret or the message    *)
(* (of fewer than 15 bytes) differs; slice(0, 32) keeps HmacLen  *)
(* characters of it.                                                       *)
(***************************************************************************)
HmacLen == 32

HexDigit(n) == IF n < 10 THEN 48 + n ELSE 87 + n

RECURSIVE HexBytes(_)
HexBytes(b) ==
  IF b = <<>> THEN <<>>
  ELSE <<HexDigit(Head(b) \div 16), HexDigit(Head(b) % 16)>> \o HexBytes(Tail(b))

Min(a, b) == IF a < b THEN a ELSE b

HexDigest(key, message) ==
  <<HexDigit(key), HexDigit(Min(Len(message), 15))>>
    \o HexBytes(message) \o Repeat(48, 2 * HmacLen)

\* a digest that does not depend on which secret is configured
ComputeHmac_FixedKey(guestId) ==
  IF secret = 0 THEN Thrown
  ELSE Some(SubSeq(HexDigest(1, Utf8Encode(guestId)), 1, HmacLen))

ComputeHmac(guestId) ==
  IF secret = 0 THEN Thrown
  ELSE Some(SubSeq(HexDigest(secret, Utf8Encode(guestId)), 1, HmacLen))

(***************************************************************************)
(* generateToken: base64url(guestId) "." hmac; throws with no secret.      *)
(***************************************************************************)
GenerateToken(guestId) ==
  LET encoded == ToBase64Url(guestId)
      hmac == ComputeHmac(guestId)
  IN IF hmac.tag = "throw" THEN Thrown ELSE Some(encoded \o <<DOT>> \o hmac.val)

(***************************************************************************)
(* The comparison loop of verifyToken: diff |= a[i] ^ b[i] over the bytes  *)
(* of the provided signature; a byte read past the end of b is undefined,  *)
(* which the bitwise operators take as 0.                                  *)
(***************************************************************************)
RECURSIVE BitXor(_, _)
BitXor(a, b) ==
  IF a = b THEN 0
  ELSE (((a % 2) + (b % 2)) % 2) + 2 * BitXor(a \div 2, b \div 2)

RECURSIVE BitOr(_, _)
BitOr(a, b) ==
  IF a = 0 THEN b
  ELSE IF b = 0 THEN a
  ELSE (IF a % 2 = 1 \/ b % 2 = 1 THEN 1 ELSE 0) + 2 * BitOr(a \div 2, b \div 2)

ByteAt(buf, i) == IF i <= Len(buf) THEN buf[i] ELSE 0

RECURSIVE DiffFrom(_, _, _)
DiffFrom(a, b, i) ==
  IF i > Len(a) THEN 0
  ELSE BitOr(BitXor(a[i], ByteAt(b, i)), DiffFrom(a, b, i + 1))

(***************************************************************************)
(* verifyToken: the guest id, or null.                                     *)
(***************************************************************************)
\* verifyToken without the try/catch around computeHmac
VerifyTokenUncaught(token) ==
  LET dotIndex == IndexOf(token, DOT)
      encoded == SubSeq(token, 1, dotIndex)
      providedHmac == SubSeq(token, dotIndex + 2, Len(token))
      guestId == FromBase64Url(encoded)
      expectedHmac == ComputeHmac(guestId.val)
  IN IF dotIndex = -1 THEN Null
     ELSE IF guestId.tag = "null" \/ guestId.val = <<>> THEN Null
     ELSE IF expectedHmac.tag = "throw" THEN Thrown
     ELSE IF Len(providedHmac) # Len(expectedHmac.val) THEN Null
     ELSE IF DiffFrom(Utf8Encode(providedHmac), Utf8Encode(expectedHmac.val), 1) = 0
       THEN Some(guestId.val)
       ELSE Null

\* verifyToken without the length comparison before the loop
VerifyToken_NoLengthCheck(token) ==
  LET dotIndex == IndexOf(token, DOT)
      encoded == SubSeq(token, 1, dotIndex)
      providedHmac == SubSeq(token, dotIndex + 2, Len(token))
      guestId == FromBase64Url(encoded)
      expectedHmac == ComputeHmac(guestId.val)
  IN IF dotIndex = -1 THEN Null
     ELSE IF guestId.tag = "null" \/ guestId.val = <<>> THEN Null
     ELSE IF expectedHmac.tag = "throw" THEN Null
     ELSE IF DiffFrom(Utf8Encode(providedHmac), Utf8Encode(expectedHmac.val), 1) = 0
       THEN Some(guestId.val)
       ELSE Null

VerifyToken(token) ==
  LET dotIndex == IndexOf(token, DOT)
      encoded == SubSeq(token, 1, dotIndex)
      providedHmac == SubSeq(token, dotIndex + 2, Len(token))
      guestId == FromBase64Url(encoded)
      expectedHmac == ComputeHmac(guestId.val)
  IN IF dotIndex = -1 THEN Null
     ELSE IF guestId.tag = "null" \/ guestId.val = <<>> THEN Null
     ELSE IF expectedHmac.tag = "throw" THEN Null
     ELSE IF Len(providedHmac) # Len(expectedHmac.val) THEN Null
     ELSE IF DiffFrom(Utf8Encode(providedHmac), Utf8Encode(expectedHmac.val), 1) = 0
       THEN Some(guestId.val)
       ELSE Null

(***************************************************************************)
(* parseTime: "6:00 PM" or "14:00" to {hour, minute}, else undefined.      *)
(*   /^(\d{1,2}):(\d{2})\s*(AM|PM)$/i   then   /^(\d{1,2}):(\d{2})$/       *)
(***************************************************************************)
COLON == 58

IsDigit(c) == c >= 48 /\ c <= 57

\* the characters \s matches
IsSpace(c) ==
  c \in {9, 10, 11, 12, 13, 32, 160, 5760, 8232, 8233, 8239, 8287, 12288, 65279}
    \/ (c >= 8192 /\ c <= 8202)

\* String.prototype.toUpperCase on the ASCII letters
ToUpper(c) == IF c >= 97 /\ c <= 122 THEN c - 32 ELSE c

RECURSIVE ParseInt(_)
ParseInt(digits) ==
  IF digits = <<>> THEN 0
  ELSE ParseInt(SubSeq(digits, 1, Len(digits) - 1)) * 10 + (digits[Len(digits)] - 48)

\* parseTime adding 12 to every PM hour, noon included
ParseTime_NoNoonRule(time) ==
  LET colon == IndexOf(time, COLON)
      rest == SubSeq(time, colon + 4, Len(time))
      n == Len(rest)
      headOk == /\ colon \in {1, 2}
                /\ \A i \in 1..colon : IsDigit(time[i])
                /\ Len(time) >= colon + 3
                /\ IsDigit(time[colon + 2]) /\ IsDigit(time[colon + 3])
      match12 == /\ headOk
                 /\ n >= 2
                 /\ ToUpper(rest[n - 1]) \in {65, 80}
                 /\ ToUpper(rest[n]) = 77
                 /\ \A i \in 1..(n - 2) : IsSpace(rest[i])
      hour == ParseInt(SubSeq(time, 1, colon))
      minute == ParseInt(SubSeq(time, colon + 2, colon + 3))
  IN IF match12 THEN
       Some([hour |-> IF ToUpper(rest[n - 1]) = 65
                        THEN (IF hour = 12 THEN 0 ELSE hour) ELSE hour + 12,
             minute |-> minute])
     ELSE IF headOk /\ n = 0 THEN Some([hour |-> hour, minute |-> minute])
     ELSE Null

ParseTime(time) ==
  LET colon == IndexOf(time, COLON)
      hourDigits == SubSeq(time, 1, colon)
      minuteDigits == SubSeq(time, colon + 2, colon + 3)
      rest == SubSeq(time, colon + 4, Len(time))
      n == Len(rest)
      headOk == /\ colon \in {1, 2}
                /\ \A i \in 1..colon : IsDigit(time[i])
                /\ Len(time) >= colon + 3
                /\ IsDigit(time[colon + 2]) /\ IsDigit(time[colon + 3])
      match12 == /\ headOk
                 /\ n >= 2
                 /\ ToUpper(rest[n - 1]) \in {65, 80}
                 /\ ToUpper(rest[n]) = 77
                 /\ \A i \in 1..(n - 2) : IsSpace(rest[i])
      match24 == headOk /\ n = 0
      hour == ParseInt(hourDigits)
      minute == ParseInt(minuteDigits)
      isAM == ToUpper(rest[n - 1]) = 65
  IN IF match12 THEN
       Some([hour |-> IF isAM /\ hour = 12 THEN 0
                      ELSE IF ~isAM /\ hour # 12 THEN hour + 12
                      ELSE hour,
             minute |-> minute])
     ELSE IF match24 THEN Some([hour |-> hour, minute |-> minute])
     ELSE Null

(***************************************************************************)
(* Number(string), String(number) and padStart(2, '0') as buildICS uses    *)
(* them on the parts of a date; -1 stands for NaN.                         *)
(***************************************************************************)
RECURSIVE SplitOn(_, _)
SplitOn(s, c) ==
  LET i == IndexOf(s, c) IN
    IF i = -1 THEN <<s>>
    ELSE <<SubSeq(s, 1, i)>> \o SplitOn(SubSeq(s, i + 2, Len(s)), c)

NumberOf(str) ==
  IF \A i \in 1..Len(str) : IsDigit(str[i]) THEN ParseInt(str) ELSE -1

RECURSIVE StringOf(_)
StringOf(n) ==
  IF n < 0 THEN <<78, 97, 78>>
  ELSE IF n < 10 THEN <<48 + n>>
  ELSE StringOf(n \div 10) \o <<48 + (n % 10)>>

Pad2(n) == LET str == StringOf(n) IN IF Len(str) >= 2 THEN str ELSE <<48>> \o str

\* a replace without the g flag: only the first '-' goes
FormatDate_FirstDashOnly(dateStr) ==
  LET i == IndexOf(dateStr, MINUS) IN
    IF i = -1 THEN dateStr
    ELSE SubSeq(dateStr, 1, i) \o SubSeq(dateStr, i + 2, Len(dateStr))

\* formatDate: "YYYY-MM-DD" to "YYYYMMDD"
FormatDate(dateStr) == RemoveAll(dateStr, MINUS)

(***************************************************************************)
(* dtstamp: the current UTC time as YYYYMMDDTHHMMSSZ.  The clock takes the *)
(* values of ClockValues in turn.                                          *)
(***************************************************************************)
ClockValues ==
  << [year |-> 2026, month |-> 2, day |-> 20, hour |-> 12, minute |-> 0, second |-> 0],
     [year |-> 2026, month |-> 2, day |-> 20, hour |-> 12, minute |-> 0, second |-> 7],
     [year |-> 2026, month |-> 12, day |-> 31, hour |-> 23, minute |-> 59, second |-> 59],
     [year |-> 2027, month |-> 1, day |-> 1, hour |-> 0, minute |-> 0, second |-> 0] >>

Dtstamp ==
  LET t == ClockValues[now] IN
    StringOf(t.year) \o Pad2(t.month) \o Pad2(t.day) \o <<84>>
      \o Pad2(t.hour) \o Pad2(t.minute) \o Pad2(t.second) \o <<90>>

(***************************************************************************)
(* escapeICS: backslash, semicolon, comma, newline, in that order.         *)
(***************************************************************************)
RECURSIVE ReplaceWith(_, _, _)
ReplaceWith(s, c, rep) ==
  IF s = <<>> THEN <<>>
  ELSE (IF Head(s) = c THEN rep ELSE <<Head(s)>>) \o ReplaceWith(Tail(s), c, rep)

\* the four replacements with the backslash escaped last
EscapeICS_BackslashLast(text) ==
  ReplaceWith(ReplaceWith(ReplaceWith(ReplaceWith(text, 59, <<92, 59>>),
                                      44, <<92, 44>>),
                          10, <<92, 110>>),
              92, <<92, 92>>)

EscapeICS(text) ==
  ReplaceWith(ReplaceWith(ReplaceWith(ReplaceWith(text, 92, <<92, 92>>),
                                      59, <<92, 59>>),
                          44, <<92, 44>>),
              10, <<92, 110>>)

(***************************************************************************)
(* buildICS.  An event is a record id, name, wedding, time, location,      *)
(* description, dayId, date; the optional fields are Some(string) or Null. *)
(* A content line is a record: head, the literal text of the template up   *)
(* to the interpolated value, and val, the value's code units.  The result *)
(* is the sequence of the lines that the CRLF joins put in the document.   *)
(***************************************************************************)
\* a test for undefined only: the empty string passes
Truthy_Defined(opt) == opt.tag = "value"

Truthy(opt) == opt.tag = "value" /\ opt.val # <<>>

Line(head, val) == [head |-> head, val |-> val]

UidSuffix == <<64, 115, 97, 114, 103, 97, 117, 120, 46, 99, 111, 109>>

\* a uid that also carries the timestamp of the pass
Uid_Stamped(event) == event.id \o <<45>> \o Dtstamp \o UidSuffix

\* a uid derived from the name of the occurrence
Uid_FromName(event) == event.name \o UidSuffix

Uid(event) == event.id \o UidSuffix

Timezone(event) == IF event.wedding = "nyc" THEN "America/New_York" ELSE "Europe/Paris"

EndHour(parsed) == parsed.hour + 2

\* the DTSTART and DTEND lines of an event that has a date
EventTimes(event) ==
  LET parsed == IF Truthy(event.time) THEN ParseTime(event.time.val) ELSE Null
      parts == SplitOn(event.date.val, MINUS)
      year == IF Len(parts) >= 1 THEN NumberOf(parts[1]) ELSE -1
      month == IF Len(parts) >= 2 THEN NumberOf(parts[2]) ELSE -1
      day == IF Len(parts) >= 3 THEN NumberOf(parts[3]) ELSE -1
      ymd == StringOf(year) \o Pad2(month) \o Pad2(day)
      localStr == ymd \o <<84>> \o Pad2(parsed.val.hour) \o Pad2(parsed.val.minute) \o <<48, 48>>
      endStr == ymd \o <<84>> \o Pad2(EndHour(parsed.val)) \o Pad2(parsed.val.minute) \o <<48, 48>>
      d == FormatDate(event.date.val)
  IN IF parsed.tag = "value"
       THEN << Line("DTSTART;TZID=" \o Timezone(event) \o ":", localStr),
               Line("DTEND;TZID=" \o Timezone(event) \o ":", endStr) >>
       ELSE << Line("DTSTART;VALUE=DATE:", d), Line("DTEND;VALUE=DATE:", d) >>

\* the lines of one VEVENT block, or none for an event without a date
EventBlock(event, stamp) ==
  IF ~Truthy(event.date) THEN <<>>
  ELSE
    << Line("BEGIN:VEVENT", <<>>),
       Line("UID:", Uid(event)),
       Line("DTSTAMP:", stamp) >>
    \o EventTimes(event)
    \o << Line("SUMMARY:", EscapeICS(event.name)) >>
    \o (IF Truthy(event.description)
          THEN << Line("DESCRIPTION:", EscapeICS(event.description.val)) >> ELSE <<>>)
    \o (IF Truthy(event.location)
          THEN << Line("LOCATION:", EscapeICS(event.location.val)) >> ELSE <<>>)
    \o << Line("END:VEVENT", <<>>) >>

RECURSIVE EventBlocks(_, _)
EventBlocks(events, stamp) ==
  IF events = <<>> THEN <<>>
  ELSE EventBlock(Head(events), stamp) \o EventBlocks(Tail(events), stamp)

BuildICS(events) ==
  LET stamp == Dtstamp
      blocks == EventBlocks(events, stamp)
      \* with no block the joined vevents string is empty: one empty line
      vevents == IF blocks = <<>> THEN << Line("", <<>>) >> ELSE blocks
  IN << Line("BEGIN:VCALENDAR", <<>>),
        Line("VERSION:2.0", <<>>),
        Line("PRODID:-//Sargaux Wedding//sargaux.com//EN", <<>>),
        Line("X-WR-CALNAME:Sargaux Wedding", <<>>),
        Line("X-WR-CALDESC:Your personal schedule for Sam & Margaux's wedding", <<>>),
        Line("CALSCALE:GREGORIAN", <<>>),
        Line("METHOD:PUBLISH", <<>>) >>
     \o vevents
     \o << Line("END:VCALENDAR", <<>>) >>

(***************************************************************************)
(* The Notion workspace the lookups read: two guest pages with their       *)
(* "Events Invited" relations, three event pages, two Wedding Timeline     *)
(* (day) pages.  Pages are named by short keys; an event's id is the code  *)
(* units of its key.  dayId "" is an empty Day relation.                   *)
(***************************************************************************)
GuestA == <<97>>
GuestB == <<46>>
NotionGuests == {GuestA, GuestB}

EventsInvited(guestId) ==
  IF guestId = GuestA THEN <<"e1", "e2", "e3">>
  ELSE IF guestId = GuestB THEN <<"e2">>
  ELSE <<>>

EventPages ==
  [ e1 |-> [id |-> <<101, 49>>, name |-> <<68, 44>>, weddingProp |-> "New York",
            time |-> Some(<<54, 58, 48, 48, 32, 80, 77>>), location |-> Some(<<84>>),
            description |-> Null, dayId |-> "d1"],
    e2 |-> [id |-> <<101, 50>>, name |-> <<66>>, weddingProp |-> "France",
            time |-> Null, location |-> Null,
            description |-> Some(<<97, 59, 98>>), dayId |-> "d2"],
    e3 |-> [id |-> <<101, 51>>, name |-> <<72>>, weddingProp |-> "France",
            time |-> Some(<<57, 58, 51, 48>>), location |-> Null,
            description |-> Null, dayId |-> ""] ]

EventKeys == DOMAIN EventPages

DayPages ==
  [ d1 |-> Some(<<50, 48, 50, 54, 45, 49, 48, 45, 49, 49>>),
    d2 |-> Some(<<50, 48, 50, 55, 45, 48, 53, 45, 50, 57>>) ]

DayKeys == DOMAIN DayPages

\* a lookup that is not cached yet
Absent == [tag |-> "absent", val |-> <<>>]

\* which upstream page retrievals fail during one request: none, one, or all
Lookups == {"guest"} \cup EventKeys \cup DayKeys

FailureChoices == {{}} \cup {{x} : x \in Lookups} \cup {Lookups}

(***************************************************************************)
(* getGuestEvents: the guest page, then each invited event page.  A failed *)
(* guest page retrieval throws; a failed event page retrieval is logged    *)
(* and the event is left out; an event without a name is left out.         *)
(***************************************************************************)
EventRecordOf(key) ==
  LET page == EventPages[key] IN
    [ id |-> page.id,
      name |-> page.name,
      wedding |-> IF page.weddingProp = "France" THEN "france" ELSE "nyc",
      time |-> page.time,
      location |-> page.location,
      description |-> page.description,
      dayId |-> page.dayId ]

RECURSIVE FetchEventPages(_, _)
FetchEventPages(keys, fails) ==
  IF keys = <<>> THEN <<>>
  ELSE (IF Head(keys) \in fails \/ EventPages[Head(keys)].name = <<>>
          THEN <<>> ELSE << EventRecordOf(Head(keys)) >>)
       \o FetchEventPages(Tail(keys), fails)

GetGuestEvents(guestId, fails) ==
  IF "guest" \in fails \/ guestId \notin NotionGuests THEN Thrown
  ELSE Some(FetchEventPages(EventsInvited(guestId), fails))

(***************************************************************************)
(* fetchDayDate: the date of a day page, cached; a failed retrieval is     *)
(* logged, cached as undefined and returned as undefined.                  *)
(***************************************************************************)
FetchDayDate(dayId, cache, fails) ==
  IF cache[dayId].tag # "absent" THEN cache[dayId]
  ELSE IF dayId \in fails THEN Null
  ELSE DayPages[dayId]

\* the cache after the day lookups of one request
DayCacheAfter(rawEvents, cache, fails) ==
  [d \in DayKeys |->
     IF \E i \in 1..Len(rawEvents) : rawEvents[i].dayId = d
       THEN FetchDayDate(d, cache, fails)
       ELSE cache[d]]

\* the page retrievals of one request that were made and failed
FailedLookups(guestId, cache, fails) ==
  IF "guest" \in fails \/ guestId \notin NotionGuests THEN {"guest"}
  ELSE LET keys == EventsInvited(guestId)
           invited == {keys[i] : i \in 1..Len(keys)}
           fetched == {k \in invited : k \notin fails}
       IN (invited \cap fails)
          \cup {d \in DayKeys \cap fails :
                  cache[d].tag = "absent" /\ \E k \in fetched : EventPages[k].dayId = d}

(***************************************************************************)
(* GET /api/calendar/[token].ics.  A missing token is the empty string.    *)
(***************************************************************************)
Response(status, body, feed, contentType) ==
  [status |-> status, body |-> body, feed |-> feed, contentType |-> contentType]

NotFound == Response(404, "Not found", <<>>, "text/plain;charset=UTF-8")

ServerError == Response(500, "Internal server error", <<>>, "text/plain;charset=UTF-8")

\* a handler that answers 401 when a token with a separator does not verify
CalendarGET_Unauthorized(token, cache, fails) ==
  IF token = <<>> \/ IndexOf(token, DOT) = -1
    THEN [resp |-> NotFound, cache |-> cache, failed |-> {}]
  ELSE IF VerifyToken(token).tag # "value"
    THEN [resp |-> Response(401, "Unauthorized", <<>>, "text/plain;charset=UTF-8"),
          cache |-> cache, failed |-> {}]
  ELSE [resp |-> ServerError, cache |-> cache, failed |-> {}]

CalendarGET(token, cache, fails) ==
  LET guestId == VerifyToken(token)
      rawEvents == GetGuestEvents(guestId.val, fails)
      events == [i \in 1..Len(rawEvents.val) |->
                   [ id |-> rawEvents.val[i].id,
                     name |-> rawEvents.val[i].name,
                     wedding |-> rawEvents.val[i].wedding,
                     time |-> rawEvents.val[i].time,
                     location |-> rawEvents.val[i].location,
                     description |-> rawEvents.val[i].description,
                     dayId |-> rawEvents.val[i].dayId,
                     date |-> IF rawEvents.val[i].dayId # ""
                                THEN FetchDayDate(rawEvents.val[i].dayId, cache, fails)
                                ELSE Null ]]
  IN IF token = <<>> THEN [resp |-> NotFound, cache |-> cache, failed |-> {}]
     ELSE IF guestId.tag # "value" THEN [resp |-> NotFound, cache |-> cache, failed |-> {}]
     ELSE IF rawEvents.tag = "throw"
       THEN [resp |-> ServerError, cache |-> cache,
             failed |-> FailedLookups(guestId.val, cache, fails)]
     ELSE [resp |-> Response(200, "", BuildICS(events), "text/calendar; charset=utf-8"),
           cache |-> DayCacheAfter(rawEvents.val, cache, fails),
           failed |-> FailedLookups(guestId.val, cache, fails)]

(***************************************************************************)
(* Inputs of the model.                                                    *)
(***************************************************************************)
\* 'a', '.', a high and a low surrogate (together U+1F600, alone ill-formed)
IdChars == {97, 46, 55357, 56832}

Identifiers == UNION {[1..n -> IdChars] : n \in 0..MaxIdLen}

Secrets == 0..NumSecrets

\* replacements for a character of the encoded segment: base64url characters,
\* their standard-alphabet twins, padding, and characters outside the alphabet
EncodedTamperChars == {65, 82, 103, MINUS, PLUS, UNDERSCORE, SLASH, EQUALS, 33, 32, DOT}

\* replacements for a character of the signature: hex digits, an upper-case
\* digit, a non-ASCII character, a separator
SignatureTamperChars == {48, 102, 70, 233, DOT}

\* characters outside the base64url alphabet: space, newline, '!', '+', '/', '='
OutsideChars == {32, 10, 33, PLUS, SLASH, EQUALS}

IsBase64UrlChar(c) ==
  \/ (c >= 65 /\ c <= 90) \/ (c >= 97 /\ c <= 122) \/ (c >= 48 /\ c <= 57)
  \/ c = MINUS \/ c = UNDERSCORE

NoToken == [guest |-> <<>>, token |-> <<>>, secret |-> 0]

NoResponse == Response(0, "", <<>>, "")

\* the record of an operation
Op(op, kind, input, result, resp, failed) ==
  [op |-> op, kind |-> kind, guest |-> held.guest, issuer |-> held.secret,
   input |-> input, result |-> result, resp |-> resp, failed |-> failed]

EncodedOf(token) == SubSeq(token, 1, IndexOf(token, DOT))

SignatureOf(token) == SubSeq(token, IndexOf(token, DOT) + 2, Len(token))

Idle ==
  [op |-> "none", kind |-> "", guest |-> <<>>, issuer |-> 0, input |-> <<>>,
   result |-> Null, resp |-> NoResponse, failed |-> {}]

(***************************************************************************)
(* Operations.  An operation starts when the previous one's result has     *)
(* been taken (Return).                                                    *)
(***************************************************************************)
\* a page render calls generateToken(g); the subscriber may store the link
Issue(g, track) ==
  LET r == GenerateToken(g) IN
    /\ last = Idle
    /\ last' = [op |-> "generate", kind |-> "", guest |-> g, issuer |-> secret,
                input |-> g, result |-> r, resp |-> NoResponse, failed |-> {}]
    /\ held' = IF track /\ r.tag = "value"
                 THEN [guest |-> g, token |-> r.val, secret |-> secret]
                 ELSE held
    /\ UNCHANGED <<secret, dayDateCache, now, feedIn, feedOut, feedAgain, flags, jar, rsvpStore, web, issued, library>>

Verify(kind, token) ==
  /\ last = Idle
  /\ last' = Op("verify", kind, token, VerifyToken(token), NoResponse, {})
  /\ UNCHANGED <<secret, held, dayDateCache, now, feedIn, feedOut, feedAgain, flags, jar, rsvpStore, web, issued, library>>

\* verifyToken on the stored link
VerifyHeld ==
  /\ held.secret # 0
  /\ Verify("held", held.token)

\* ... with one character of the encoded segment replaced
VerifyEncodedMutation ==
  /\ held.secret # 0
  /\ \E p \in 1..Len(EncodedOf(held.token)), c \in EncodedTamperChars :
       /\ c # held.token[p]
       /\ Verify("encoded", [held.token EXCEPT ![p] = c])

\* ... with one character of the signature replaced
VerifySignatureMutation ==
  /\ held.secret # 0
  /\ \E p \in (Len(EncodedOf(held.token)) + 2)..Len(held.token), c \in SignatureTamperChars :
       /\ c # held.token[p]
       /\ Verify("signature", [held.token EXCEPT ![p] = c])

\* ... with the signature shortened, lengthened or emptied
VerifySignatureLength ==
  /\ held.secret # 0
  /\ \E t \in { SubSeq(held.token, 1, Len(held.token) - 1),
                held.token \o <<48>>,
                EncodedOf(held.token) \o <<DOT>> } :
       Verify("siglen", t)

\* ... with a character outside the base64url alphabet put into the encoded segment
VerifyEncodedInsertion ==
  /\ held.secret # 0
  /\ \E p \in 0..Len(EncodedOf(held.token)), c \in OutsideChars :
       Verify("inserted",
              SubSeq(held.token, 1, p) \o <<c>> \o SubSeq(held.token, p + 1, Len(held.token)))

\* verifyToken on a string with no separator or with an empty segment
VerifyMalformed ==
  \E t \in { <<>>, <<DOT>>,
             EncodedOf(held.token) \o SignatureOf(held.token),
             <<DOT>> \o SignatureOf(held.token),
             EncodedOf(held.token) \o <<DOT>>,
             ToBase64Url(<<97>>) } :
    Verify("malformed", t)

\* the deployment's CALENDAR_HMAC_SECRET is set, changed or removed
RotateSecret ==
  \E s \in Secrets :
    /\ last = Idle
    /\ s # secret
    /\ secret' = s
    /\ UNCHANGED <<held, last, dayDateCache, now, feedIn, feedOut, feedAgain, flags, jar, rsvpStore, web, issued, library>>

\* the caller takes the result of the last operation
Return ==
  /\ last # Idle
  /\ last' = Idle
  /\ UNCHANGED <<secret, held, dayDateCache, now, feedIn, feedOut, feedAgain, flags, jar, rsvpStore, web, issued, library>>

\* a feed request with no token, the stored link, or the token last verified;
\* no lookup is made, so none can fail, for a token that does not verify
FeedRequest ==
  \E request \in {[kind |-> "missing", token |-> <<>>],
                  [kind |-> "held", token |-> held.token],
                  [kind |-> last.kind, token |-> last.input]} :
    /\ request.kind = "missing" \/ request.token # <<>>
    /\ IF request.kind = last.kind THEN last.op = "verify" ELSE last = Idle
    /\ LET guestId == VerifyToken(request.token) IN
         \E fails \in (IF guestId.tag = "value" THEN FailureChoices ELSE {{}}) :
           LET out == CalendarGET(request.token, dayDateCache, fails) IN
             /\ last' = Op("GET", request.kind, request.token, guestId, out.resp, out.failed)
             /\ dayDateCache' = out.cache
             /\ UNCHANGED <<secret, held, now, feedIn, feedOut, feedAgain, flags, jar, rsvpStore, web, issued, library>>

(***************************************************************************)
(* Inputs of the feed builder.                                             *)
(***************************************************************************)
\* longest occurrence list built from the small pool
MaxEvents == 2

\* times written in the 12-hour form: H:MM or HH:MM, optional spaces, AM or PM
\* in any letter case, with the hour and minute they denote
Meridiems == { [text |-> <<65, 77>>, pm |-> FALSE], [text |-> <<97, 109>>, pm |-> FALSE],
               [text |-> <<80, 77>>, pm |-> TRUE], [text |-> <<112, 77>>, pm |-> TRUE] }

Times12 ==
  { [text |-> (IF padded THEN Pad2(h) ELSE StringOf(h)) \o <<COLON>> \o Pad2(m) \o sep \o mer.text,
     hour |-> (h % 12) + (IF mer.pm THEN 12 ELSE 0), minute |-> m] :
      h \in 1..12, m \in {0, 59}, sep \in {<<>>, <<32>>}, mer \in Meridiems,
      padded \in BOOLEAN }

\* times written in the 24-hour form, hours 0 to 23
Times24 ==
  { [text |-> (IF padded THEN Pad2(h) ELSE StringOf(h)) \o <<COLON>> \o Pad2(m),
     hour |-> h, minute |-> m] :
      h \in 0..23, m \in {0, 59}, padded \in BOOLEAN }

TimedCases == Times12 \cup Times24

\* texts that match one of the two forms but denote no time of day
OddTimes == { <<50, 52, 58, 48, 48>>,
              <<50, 53, 58, 51, 48>>,
              <<49, 51, 58, 48, 48, 32, 80, 77>>,
              <<48, 58, 48, 48, 32, 80, 77>>,
              <<48, 48, 58, 55, 53>>,
              <<57, 57, 58, 57, 57, 32, 65, 77>> }

\* texts that match neither form
UnparseableTimes == { <<54, 32, 80, 77>>,
                      <<110, 111, 111, 110>>,
                      <<54, 58, 48, 32, 80, 77>>,
                      <<58, 51, 48>>,
                      <<49, 50, 51, 58, 48, 48>>,
                      <<32, 54, 58, 48, 48, 32, 80, 77>>,
                      <<54, 58, 48, 48, 32, 80, 77, 32>>,
                      <<54, 58, 48, 48, 32, 80, 46, 77, 46>>,
                      <<49, 56, 104, 48, 48>>,
                      <<54, 58, 48, 48, 32, 80, 77, 88>>,
                      <<54, 46, 48, 48, 32, 80, 77>>,
                      <<54, 58, 48, 48, 32, 65>>,
                      <<54, 58, 48, 48, 32, 32, 77>>,
                      <<49, 58, 50, 58, 51>> }

TimeInputs ==
  {Null, Some(<<>>)}
    \cup {Some(c.text) : c \in TimedCases}
    \cup {Some(t) : t \in OddTimes \cup UnparseableTimes}

Dates == { <<50, 48, 50, 54, 45, 49, 48, 45, 49, 49>>,
           <<50, 48, 50, 55, 45, 48, 53, 45, 50, 57>>,
           <<50, 48, 50, 54, 45, 49, 50, 45, 51, 49>>,
           <<50, 48, 50, 56, 45, 48, 50, 45, 50, 56>> }

DateInputs == {Null, Some(<<>>)} \cup {Some(d) : d \in Dates}

Occurrence(id, name, wedding, time, date, description, location) ==
  [id |-> id, name |-> name, wedding |-> wedding, time |-> time, location |-> location,
   description |-> description, dayId |-> "", date |-> date]

\* one occurrence in every combination of wedding, time and date
SingleOccurrences ==
  { Occurrence(<<101, 118>>, <<80, 97, 114, 116, 121>>, w, t, d, Null, Null) :
      w \in {"nyc", "france"}, t \in TimeInputs, d \in DateInputs }

\* a small pool for lists of several occurrences
OccurrencePool ==
  { Occurrence(<<101, 49>>, <<68, 44>>, "nyc", Some(<<54, 58, 48, 48, 32, 80, 77>>), Some(<<50, 48, 50, 54, 45, 49, 48, 45, 49, 49>>),
               Null, Some(<<84>>)),
    Occurrence(<<101, 50>>, <<66>>, "france", Null, Some(<<50, 48, 50, 55, 45, 48, 53, 45, 50, 57>>),
               Some(<<97, 59, 98>>), Null),
    Occurrence(<<101, 51>>, <<72>>, "france", Some(<<57, 58, 51, 48>>), Null, Null, Null) }

\* longest text given to escapeICS
MaxTextLen == 3

\* texts of backslashes, semicolons, commas, newlines and the letter n
Texts == UNION {[1..n -> {92, 59, 44, 10, 110}] : n \in 0..MaxTextLen}

\* one dated occurrence for every text as its name, all with the same description
NamedOccurrences ==
  { Occurrence(<<101, 118>>, t, "france", Null, Some(<<50, 48, 50, 55, 45, 48, 53, 45, 50, 57>>),
               Some(<<92, 44, 10>>), Null) : t \in Texts }

OccurrenceLists ==
  {<<e>> : e \in SingleOccurrences \cup NamedOccurrences}
    \cup UNION {[1..n -> OccurrencePool] : n \in 0..MaxEvents}

(***************************************************************************)
(* Operations of the feed builder specification.                           *)
(***************************************************************************)
\* buildICS(events), once the previous document has been sent
BuildFeed ==
  \E events \in OccurrenceLists :
    /\ feedOut = <<>>
    /\ feedIn' = events
    /\ feedOut' = BuildICS(events)
    /\ UNCHANGED <<secret, held, last, dayDateCache, now, feedAgain, flags, jar, rsvpStore, web, issued, library>>

\* buildICS called once more on the list of the pending document
BuildFeedAgain ==
  /\ feedOut # <<>>
  /\ feedAgain = <<>>
  /\ feedAgain' = BuildICS(feedIn)
  /\ UNCHANGED <<secret, held, last, dayDateCache, now, feedIn, feedOut, flags, jar, rsvpStore, web, issued, library>>

\* the document is sent to the subscriber
SendFeed ==
  /\ feedOut # <<>>
  /\ feedIn' = <<>>
  /\ feedOut' = <<>>
  /\ feedAgain' = <<>>
  /\ UNCHANGED <<secret, held, last, dayDateCache, now, flags, jar, rsvpStore, web, issued, library>>

\* time passes
Tick ==
  /\ now < Len(ClockValues)
  /\ now' = now + 1
  /\ UNCHANGED <<secret, held, last, dayDateCache, feedIn, feedOut, feedAgain, flags, jar, rsvpStore, web, issued, library>>

(***************************************************************************)
(* The guest site: sessions (src/lib/auth.ts), the middleware              *)
(* (src/middleware.ts), the login and logout endpoints and the RSVP        *)
(* endpoints (src/pages/api/rsvp.ts) with the RSVP Responses database.     *)
(***************************************************************************)
\* the paths the middleware and the endpoints name
HomePath == <<47>>  \* '/'
NycRoute == <<47, 110, 121, 99>>  \* '/nyc'
FranceRoute == <<47, 102, 114, 97, 110, 99, 101>>  \* '/france'
RegistryRoute == <<47, 114, 101, 103, 105, 115, 116, 114, 121>>  \* '/registry'
LoginRoute == <<47, 97, 112, 105, 47, 108, 111, 103, 105, 110>>  \* '/api/login'
LogoutRoute == <<47, 97, 112, 105, 47, 108, 111, 103, 111, 117, 116>>  \* '/api/logout'
AssetPrefix == <<47, 95>>  \* '/_'

\* AUTHORIZED_GUESTS, the hardcoded fallback list: Sam Gross, Margaux Ancel,
\* Charles Gross, Dorothee Ancel, Nicolas Ancel, Toni Waldman
AUTHORIZED_GUESTS ==
  << <<83, 97, 109, 32, 71, 114, 111, 115, 115>>,
     <<77, 97, 114, 103, 97, 117, 120, 32, 65, 110, 99, 101, 108>>,
     <<67, 104, 97, 114, 108, 101, 115, 32, 71, 114, 111, 115, 115>>,
     <<68, 111, 114, 111, 116, 104, 101, 101, 32, 65, 110, 99, 101, 108>>,
     <<78, 105, 99, 111, 108, 97, 115, 32, 65, 110, 99, 101, 108>>,
     <<84, 111, 110, 105, 32, 87, 97, 108, 100, 109, 97, 110>> >>

\* String.prototype.toLowerCase on Latin-1 letters
ToLowerCase(s) ==
  [i \in 1..Len(s) |->
     IF (s[i] >= 65 /\ s[i] <= 90) \/ (s[i] >= 192 /\ s[i] <= 222 /\ s[i] # 215)
       THEN s[i] + 32
       ELSE s[i]]

\* the canonical decompositions of the lower-case Latin-1 letters
Decomposition ==
  (224 :> <<97, 768>>) @@ (225 :> <<97, 769>>) @@ (226 :> <<97, 770>>) @@ (227 :> <<97, 771>>) @@
  (228 :> <<97, 776>>) @@ (229 :> <<97, 778>>) @@ (231 :> <<99, 807>>) @@ (232 :> <<101, 768>>) @@
  (233 :> <<101, 769>>) @@ (234 :> <<101, 770>>) @@ (235 :> <<101, 776>>) @@ (236 :> <<105, 768>>) @@
  (237 :> <<105, 769>>) @@ (238 :> <<105, 770>>) @@ (239 :> <<105, 776>>) @@ (241 :> <<110, 771>>) @@
  (242 :> <<111, 768>>) @@ (243 :> <<111, 769>>) @@ (244 :> <<111, 770>>) @@ (245 :> <<111, 771>>) @@
  (246 :> <<111, 776>>) @@ (249 :> <<117, 768>>) @@ (250 :> <<117, 769>>) @@ (251 :> <<117, 770>>) @@
  (252 :> <<117, 776>>) @@ (253 :> <<121, 769>>) @@ (255 :> <<121, 776>>)

RECURSIVE NormalizeNFD(_)
NormalizeNFD(s) ==
  IF s = <<>> THEN <<>>
  ELSE (IF Head(s) \in DOMAIN Decomposition THEN Decomposition[Head(s)] ELSE <<Head(s)>>)
         \o NormalizeNFD(Tail(s))

\* .replace(/[̀-ͯ]/g, '')
StripMarks(s) == SelectSeq(s, LAMBDA c : ~(c >= 768 /\ c <= 879))

RECURSIVE TrimStart(_)
TrimStart(s) ==
  IF s # <<>> /\ IsSpace(Head(s)) THEN TrimStart(Tail(s)) ELSE s

RECURSIVE TrimEnd(_)
TrimEnd(s) ==
  IF s # <<>> /\ IsSpace(s[Len(s)]) THEN TrimEnd(SubSeq(s, 1, Len(s) - 1)) ELSE s

Trim(s) == TrimEnd(TrimStart(s))

\* .replace(/\s+/g, ' ')
RECURSIVE CollapseSpaces(_)
CollapseSpaces(s) ==
  IF s = <<>> THEN <<>>
  ELSE IF IsSpace(Head(s)) THEN <<32>> \o CollapseSpaces(TrimStart(Tail(s)))
  ELSE <<Head(s)>> \o CollapseSpaces(Tail(s))

\* normalize(input) of auth.ts, normalizeName(name) of notion.ts
Normalize(input) == Trim(CollapseSpaces(StripMarks(NormalizeNFD(ToLowerCase(input)))))

NORMALIZED_GUESTS == [i \in 1..Len(AUTHORIZED_GUESTS) |-> Normalize(AUTHORIZED_GUESTS[i])]

\* validateGuest(input): the canonical name, or null
ValidateGuest(input) ==
  LET normalizedInput == Normalize(input)
      hits == {i \in 1..Len(NORMALIZED_GUESTS) : NORMALIZED_GUESTS[i] = normalizedInput}
  IN IF hits # {}
       THEN Some(AUTHORIZED_GUESTS[CHOOSE i \in hits : \A j \in hits : i <= j])
       ELSE Null

\* a GuestRecord as _fetchAllGuests pushes it
GuestRecord(id, name, eventInvitations) ==
  [id |-> id, name |-> name, normalizedName |-> Normalize(name),
   eventInvitations |-> eventInvitations]

\* the Guest List database, the records fetchAllGuests resolves to: Sam Gross,
\* Dorothée Ancel (with e acute), Margaux Ancel, Eve Zed (no valid invitation option)
GuestList ==
  << GuestRecord("g1", <<83, 97, 109, 32, 71, 114, 111, 115, 115>>, <<"nyc">>),
     GuestRecord("g2", <<68, 111, 114, 111, 116, 104, 233, 101, 32, 65, 110, 99, 101, 108>>, <<"france">>),
     GuestRecord("g3", <<77, 97, 114, 103, 97, 117, 120, 32, 65, 110, 99, 101, 108>>, <<"nyc", "france">>),
     GuestRecord("g4", <<69, 118, 101, 32, 90, 101, 100>>, <<>>) >>

\* validateGuestFromRecords(input, guests): the first matching record, or null
ValidateGuestFromRecords(input, guests) ==
  LET normalizedInput == Normalize(input)
      hits == {i \in 1..Len(guests) : guests[i].normalizedName = normalizedInput}
  IN IF hits # {}
       THEN Some(guests[CHOOSE i \in hits : \A j \in hits : i <= j])
       ELSE Null

(***************************************************************************)
(* Session tokens.  A token is the base64url text of a JSON document; the  *)
(* model keeps the document a token decodes to: a session payload, some    *)
(* other JSON value, or text that is not JSON.  An absent notionId is "",  *)
(* an absent eventInvitations is the empty array: the code reads both      *)
(* through a test for truthiness or through `|| []`.  A field that may     *)
(* hold an array holds Some(array) or Other.                               *)
(***************************************************************************)
NoCookie == [tag |-> "none"]
EmptyCookie == [tag |-> "empty"]
GarbageToken == [tag |-> "garbage"]
ScalarToken == [tag |-> "scalar"]
SessionToken(payload) == [tag |-> "session", payload |-> payload]

\* a field that holds something other than the string or the array expected
Other == [tag |-> "other", val |-> <<>>]

\* createSessionToken(guestName, notionId, eventInvitations)
CreateSessionToken(guestName, notionId, eventInvitations) ==
  SessionToken([guest |-> Some(guestName),
                notionId |-> IF notionId # "" THEN notionId ELSE "",
                eventInvitations |->
                  Some(IF Len(eventInvitations) > 0 THEN eventInvitations ELSE <<>>)])

FilterInvitations_KeepAll(list) == list

\* eventInvitations.filter(event => event === 'nyc' || event === 'france')
FilterInvitations(list) == SelectSeq(list, LAMBDA event : event \in {"nyc", "france"})

\* parseSessionToken(token): the session, or null
ParseSessionToken(token) ==
  IF token.tag # "session" THEN Null
  ELSE LET payload == token.payload
       IN IF payload.guest.tag = "value" /\ payload.guest.val # <<>>
            THEN IF payload.eventInvitations.tag # "value"
                   THEN Null
                   ELSE LET eventInvitations == FilterInvitations(payload.eventInvitations.val)
                        IN Some([guest |-> payload.guest.val,
                                 notionId |-> payload.notionId,
                                 eventInvitations |->
                                   IF Len(eventInvitations) > 0
                                     THEN eventInvitations
                                     ELSE <<"nyc", "france">>])
            ELSE Null

\* what a handler holds: the request's cookies object, or a cookie's string value
CookiesObject(cookie) == [tag |-> "cookies", cookie |-> cookie]
CookieValue(cookie) == [tag |-> "string", cookie |-> cookie]

\* getAuthenticatedGuest(cookies): cookies.get is called on the argument
GetAuthenticatedGuest(cookies) ==
  IF cookies.tag # "cookies" THEN Thrown
  ELSE IF cookies.cookie.tag \in {"none", "empty"} THEN Null
  ELSE ParseSessionToken(cookies.cookie)

(***************************************************************************)
(* HTTP responses.                                                         *)
(***************************************************************************)
Includes(list, x) == \E i \in 1..Len(list) : list[i] = x

StartsWith(s, prefix) ==
  Len(s) >= Len(prefix) /\ SubSeq(s, 1, Len(prefix)) = prefix

Json(status, body) == [status |-> status, location |-> <<>>, body |-> body]
Redirect(location, status) == [status |-> status, location |-> location, body |-> [redirect |-> TRUE]]
\* a handler that threw: the server answers 500
Uncaught == [status |-> 500, location |-> <<>>, body |-> [uncaught |-> TRUE]]

NoLocals == [guest |-> <<>>, eventInvitations |-> <<>>, guestId |-> ""]

(***************************************************************************)
(* src/middleware.ts                                                       *)
(***************************************************************************)
PROTECTED_ROUTES_NoRegistry == { NycRoute, FranceRoute }

PROTECTED_ROUTES == { NycRoute, FranceRoute, RegistryRoute }
PUBLIC_ROUTES == { HomePath, LoginRoute, LogoutRoute }

\* onRequest(context, next): either next() with the locals set, or a redirect
OnRequest(pathname, cookie, siteEnabled) ==
  LET Proceed(locals) == [next |-> TRUE, locals |-> locals, response |-> Json(0, [none |-> TRUE])]
      Stop(response) == [next |-> FALSE, locals |-> NoLocals, response |-> response]
  IN IF ~siteEnabled
       THEN IF pathname = HomePath \/ StartsWith(pathname, AssetPrefix) \/ Includes(pathname, DOT)
              THEN Proceed(NoLocals)
              ELSE Stop(Redirect(HomePath, 302))
     ELSE IF pathname \in PUBLIC_ROUTES THEN Proceed(NoLocals)
     ELSE IF ~(\E route \in PROTECTED_ROUTES : StartsWith(pathname, route)) THEN Proceed(NoLocals)
     ELSE LET auth == GetAuthenticatedGuest(CookiesObject(cookie))
          IN IF auth.tag # "value" THEN Stop(Redirect(HomePath, 302))
             ELSE LET invitedToNyc == Includes(auth.val.eventInvitations, "nyc")
                      invitedToFrance == Includes(auth.val.eventInvitations, "france")
                      primaryEventRoute == IF invitedToNyc THEN NycRoute ELSE FranceRoute
                  IN IF StartsWith(pathname, NycRoute) /\ ~invitedToNyc
                       THEN Stop(Redirect(primaryEventRoute, 302))
                     ELSE IF StartsWith(pathname, FranceRoute) /\ ~invitedToFrance
                       THEN Stop(Redirect(primaryEventRoute, 302))
                     ELSE Proceed([guest |-> auth.val.guest,
                                   eventInvitations |-> auth.val.eventInvitations,
                                   guestId |-> auth.val.notionId])

(***************************************************************************)
(* POST /api/login and GET|POST /api/logout.  A handler yields its         *)
(* response and the cookie the browser holds afterwards.                   *)
(***************************************************************************)
\* fetchAllGuests() as the login handler sees it: the records, or a rejection
FetchAllGuests(fails) == IF fails THEN Thrown ELSE Some(GuestList)

LoginPOST(name, cookie, notionBackend, fails) ==
  IF name.tag # "value" \/ Trim(name.val) = <<>>
    THEN [response |-> Json(400, [error |-> "Please enter your name"]), cookie |-> cookie]
  ELSE
    LET guests == FetchAllGuests(fails)
        record == IF guests.tag = "value" THEN ValidateGuestFromRecords(name.val, guests.val) ELSE Null
        fallback == ValidateGuest(name.val)
        fromNotion == notionBackend /\ guests.tag = "value" /\ record.tag = "value"
        guestName == IF notionBackend /\ guests.tag = "value"
                       THEN (IF record.tag = "value" THEN Some(record.val.name) ELSE Null)
                       ELSE fallback
        notionId == IF fromNotion THEN record.val.id ELSE ""
        eventInvitations == IF fromNotion THEN record.val.eventInvitations ELSE <<"nyc", "france">>
    IN IF guestName.tag # "value" \/ guestName.val = <<>>
         THEN [response |-> Json(401, [error |-> "Please enter your name as it appears on your invitation."]),
               cookie |-> cookie]
         ELSE [response |-> Json(200, [success |-> TRUE, guest |-> guestName.val,
                                       redirectPath |-> IF Includes(eventInvitations, "nyc")
                                                          THEN NycRoute ELSE FranceRoute]),
               cookie |-> CreateSessionToken(guestName.val, notionId, eventInvitations)]

\* cookies.delete(AUTH_COOKIE_NAME); redirect('/')
Logout(cookie) == [response |-> Redirect(HomePath, 302), cookie |-> NoCookie]

(***************************************************************************)
(* The RSVP Responses database (src/lib/notion.ts).  rsvpStore is the      *)
(* sequence of its pages in the order of their Submitted At property; a    *)
(* page is created with the next free id, and an archived page is no       *)
(* longer returned by a query.                                             *)
(***************************************************************************)
\* the Event select option: 'NYC' or 'France'
EventLabel(event) == IF event = "nyc" THEN "NYC" ELSE "France"

\* the pages the query of getLatestRSVP matches, in ascending Submitted At
MatchingPages(store, guestId, event) ==
  SelectSeq(store, LAMBDA page : /\ ~page.archived
                                 /\ page.guest = guestId
                                 /\ page.event = EventLabel(event))

\* getLatestRSVP(guestId, event): the first result of the descending sort, or null
GetLatestRSVP(store, guestId, event) ==
  LET results == MatchingPages(store, guestId, event)
  IN IF results = <<>> THEN Null
     ELSE LET page == results[Len(results)]
          IN Some([id |-> page.id, guestId |-> guestId, event |-> event,
                   status |-> page.status, guestsAttending |-> page.guestsAttending])

\* a Status that knows no Partial
StatusOf_NoPartial(guestsAttending) ==
  IF SelectSeq(guestsAttending, LAMBDA g : g.attending) = <<>> THEN "Declined"
  ELSE "Attending"

\* the Status of a submission, from its guestsAttending
StatusOf(guestsAttending) ==
  LET attendingCount == Len(SelectSeq(guestsAttending, LAMBDA g : g.attending))
      totalCount == Len(guestsAttending)
  IN IF attendingCount = 0 THEN "Declined"
     ELSE IF attendingCount = totalCount THEN "Attending"
     ELSE "Partial"

\* the names of the guests attending, in order
AttendingNames(guestsAttending) ==
  LET attending == SelectSeq(guestsAttending, LAMBDA g : g.attending)
  IN [i \in 1..Len(attending) |-> attending[i].name]

WithoutPage(store, id) == SelectSeq(store, LAMBDA page : page.id # id)

\* the properties submitRSVP writes: Guest, Event, Status, Guests Attending
RsvpProperties(guestId, submission) ==
  [guest |-> guestId,
   event |-> EventLabel(submission.event),
   status |-> StatusOf(submission.guestsAttending.val),
   guestsAttending |-> AttendingNames(submission.guestsAttending.val),
   archived |-> FALSE]

\* the id submitRSVP returns: the page it updated, or the page it created
WrittenId(store, existingRSVP) ==
  IF existingRSVP.tag = "value" THEN existingRSVP.val.id ELSE Len(store) + 1

\* the store after pages.update on the page found, or after pages.create; the
\* page written carries the newest Submitted At, so it comes last
WriteRSVP(store, existingRSVP, properties) ==
  Append(WithoutPage(store, WrittenId(store, existingRSVP)),
         [id |-> WrittenId(store, existingRSVP)] @@ properties)

\* submitRSVP(guestId, submission): the id of the page written and the store
\* afterwards, or a rejection when a call to the workspace fails
SubmitRSVP(store, guestId, submission, fails) ==
  IF fails THEN [result |-> Thrown, store |-> store]
  ELSE
    LET properties == RsvpProperties(guestId, submission)
        existingRSVP == GetLatestRSVP(store, guestId, submission.event)
    IN [result |-> Some(WrittenId(store, existingRSVP)),
        store |-> WriteRSVP(store, existingRSVP, properties)]

\* deleteRSVP(guestId, event): whether a page was archived, and the store afterwards
DeleteRSVP(store, guestId, event, fails) ==
  IF fails THEN [result |-> Thrown, store |-> store]
  ELSE
    LET existingRSVP == GetLatestRSVP(store, guestId, event)
    IN IF existingRSVP.tag # "value"
         THEN [result |-> Some(FALSE), store |-> store]
         ELSE [result |-> Some(TRUE),
               store |-> [i \in 1..Len(store) |->
                            IF store[i].id = existingRSVP.val.id
                              THEN [store[i] EXCEPT !.archived = TRUE]
                              ELSE store[i]]]

(***************************************************************************)
(* src/pages/api/rsvp.ts.  Each handler yields its response and the store  *)
(* afterwards.  json is what request.json() gives: a rejection, the value  *)
(* null, or an object with the fields the handler reads.                   *)
(***************************************************************************)
RsvpRoute == <<47, 97, 112, 105, 47, 114, 115, 118, 112>>  \* '/api/rsvp'

JsonNull == [tag |-> "jsonnull", val |-> <<>>]

ValidEvents == {"nyc", "france"}

\* the checks the three handlers start with: a response, or the guest id
RsvpAuth(cookie) ==
  IF cookie = NoCookie
    THEN [stop |-> TRUE, response |-> Json(401, [error |-> "Unauthorized"]), guestId |-> ""]
  ELSE LET auth == GetAuthenticatedGuest(CookieValue(cookie))
       IN IF auth = Thrown
            THEN [stop |-> TRUE, response |-> Uncaught, guestId |-> ""]
          ELSE IF auth = Null
            THEN [stop |-> TRUE, response |-> Json(401, [error |-> "Invalid session"]), guestId |-> ""]
          ELSE IF auth.val.notionId = ""
            THEN [stop |-> TRUE,
                  response |-> Json(400, [error |-> "Notion backend required for RSVPs"]),
                  guestId |-> ""]
          ELSE [stop |-> FALSE, response |-> Uncaught, guestId |-> auth.val.notionId]

RsvpPOST(cookie, json, store, fails) ==
  LET session == RsvpAuth(cookie)
      Answer(response) == [response |-> response, store |-> store]
  IN IF session.stop THEN Answer(session.response)
     ELSE IF json = Thrown THEN Answer(Json(400, [error |-> "Invalid JSON"]))
     ELSE IF json = JsonNull THEN Answer(Uncaught)
     ELSE LET body == json.val
          IN IF body.event \notin ValidEvents
               THEN Answer(Json(400, [error |-> "Invalid event (must be \"nyc\" or \"france\")"]))
             ELSE IF body.guestsAttending.tag # "value"
               THEN Answer(Json(400, [error |-> "guestsAttending must be an array"]))
             ELSE IF body.eventsAttending.tag # "value"
               THEN Answer(Json(400, [error |-> "eventsAttending must be an array"]))
             ELSE LET submitted == SubmitRSVP(store, session.guestId, body, fails)
                  IN IF submitted.result = Thrown
                       THEN [response |-> Json(500, [error |-> "Failed to submit RSVP"]),
                             store |-> submitted.store]
                       ELSE [response |-> Json(200, [success |-> TRUE,
                                                     responseId |-> submitted.result.val,
                                                     message |-> "RSVP submitted successfully"]),
                             store |-> submitted.store]

RsvpGET(cookie, event, store, fails) ==
  LET session == RsvpAuth(cookie)
      Answer(response) == [response |-> response, store |-> store]
  IN IF session.stop THEN Answer(session.response)
     ELSE IF event \notin ValidEvents
       THEN Answer(Json(400, [error |-> "Invalid event (must be \"nyc\" or \"france\")"]))
     ELSE IF fails THEN Answer(Json(500, [error |-> "Failed to fetch RSVP"]))
     ELSE Answer(Json(200, [rsvp |-> GetLatestRSVP(store, session.guestId, event)]))

RsvpDELETE(cookie, event, store, fails) ==
  LET session == RsvpAuth(cookie)
      Answer(response) == [response |-> response, store |-> store]
  IN IF session.stop THEN Answer(session.response)
     ELSE IF event \notin ValidEvents
       THEN Answer(Json(400, [error |-> "Invalid event (must be \"nyc\" or \"france\")"]))
     ELSE LET deleted == DeleteRSVP(store, session.guestId, event, fails)
          IN IF deleted.result = Thrown
               THEN [response |-> Json(500, [error |-> "Failed to delete RSVP"]),
                     store |-> deleted.store]
             ELSE IF ~deleted.result.val
               THEN [response |-> Json(404, [success |-> FALSE, message |-> "No RSVP found to delete"]),
                     store |-> deleted.store]
             ELSE [response |-> Json(200, [success |-> TRUE, message |-> "RSVP deleted successfully"]),
                   store |-> deleted.store]

(***************************************************************************)
(* Requests.  One browser talks to the site, one request at a time; it     *)
(* sends the cookie it holds, no cookie, or a cookie it made up.  Every    *)
(* request passes the middleware before its route's handler runs.          *)
(***************************************************************************)
\* names typed into the login form: 'Sam Gross', '  SAM   gross ', 'Dorothée Ancel',
\* 'Eve Zed', 'Nobody', '   ', and a form without the field
LoginNames ==
  { Some(<<83, 97, 109, 32, 71, 114, 111, 115, 115>>),
    Some(<<32, 32, 83, 65, 77, 32, 32, 32, 103, 114, 111, 115, 115, 32>>),
    Some(<<68, 111, 114, 111, 116, 104, 233, 101, 32, 65, 110, 99, 101, 108>>),
    Some(<<69, 118, 101, 32, 90, 101, 100>>),
    Some(<<78, 111, 98, 111, 100, 121>>),
    Some(<<32, 32, 32>>),
    Null }

\* cookies a client can make up
ForgedCookies ==
  {EmptyCookie, GarbageToken, ScalarToken} \cup
  { SessionToken([guest |-> guest, notionId |-> notionId, eventInvitations |-> eventInvitations]) :
      guest \in {Some(<<83, 97, 109, 32, 71, 114, 111, 115, 115>>), Some(<<>>), Other},
      notionId \in {"", "g1"},
      eventInvitations \in {Some(<<>>), Some(<<"nyc">>), Some(<<"france">>),
                            Some(<<"paris">>), Other} }

\* paths of page requests: '/', '/nyc', '/nyc/travel', '/nyc-guide', '/france',
\* '/france/schedule', '/registry', '/about', '/_astro/app.js', '/favicon.ico'
\* '/api/calendar/ab.ics': the route of src/pages/api/calendar/[token].ics.ts
CalendarFeedPath == <<47, 97, 112, 105, 47, 99, 97, 108, 101, 110, 100, 97, 114, 47, 97, 98, 46, 105, 99, 115>>

PagePaths ==
  { HomePath, NycRoute, <<47, 110, 121, 99, 47, 116, 114, 97, 118, 101, 108>>, <<47, 110, 121, 99, 45, 103, 117, 105, 100, 101>>, FranceRoute,
    <<47, 102, 114, 97, 110, 99, 101, 47, 115, 99, 104, 101, 100, 117, 108, 101>>, RegistryRoute, <<47, 97, 98, 111, 117, 116>>, <<47, 95, 97, 115, 116, 114, 111, 47, 97, 112, 112, 46, 106, 115>>, <<47, 102, 97, 118, 105, 99, 111, 110, 46, 105, 99, 111>>,
    CalendarFeedPath }

\* bodies of POST /api/rsvp
Attendances ==
  { <<>>,
    <<[name |-> "a", attending |-> TRUE]>>,
    <<[name |-> "a", attending |-> FALSE]>>,
    <<[name |-> "a", attending |-> TRUE], [name |-> "b", attending |-> FALSE]>> }

JsonBodies ==
  {Thrown, JsonNull} \cup
  { Some([event |-> event, guestsAttending |-> guestsAttending, eventsAttending |-> eventsAttending]) :
      event \in {"nyc", "france", "paris", ""},
      guestsAttending \in {Some(list) : list \in Attendances} \cup {Other},
      eventsAttending \in {Some(<<>>), Some(<<"welcome">>), Other} }

\* the event query parameter of GET and DELETE /api/rsvp; "" when absent
EventParams == {"nyc", "france", "paris", ""}

\* no request in flight; afterLogout remembers that the exchange just settled was
\* a log-out that deleted the browser's cookie
Quiet == [method |-> "none", afterLogout |-> FALSE]
LoggedOut == [method |-> "none", afterLogout |-> TRUE]

\* what the route answers when the middleware lets a page request through
PageRendered == Json(200, [page |-> TRUE])

Exchange(method, pathname, sent, input, fails, passed, outcome) ==
  [method |-> method, pathname |-> pathname, sent |-> sent, input |-> input,
   fails |-> fails, handled |-> passed.next, locals |-> passed.locals,
   response |-> IF passed.next THEN outcome.response ELSE passed.response,
   before |-> rsvpStore, jarBefore |-> jar, afterLogout |-> web.afterLogout]

Sendable == {jar, NoCookie} \cup ForgedCookies

PageRequest ==
  /\ web.method = "none"
  /\ \E pathname \in PagePaths, sent \in Sendable :
    /\ web' = Exchange("GET", pathname, sent, <<>>, FALSE,
                       OnRequest(pathname, sent, flags.siteEnabled),
                       [response |-> PageRendered])
    /\ UNCHANGED <<flags, jar, rsvpStore, issued>>
    /\ UNCHANGED <<calendar, library>>

LoginRequest ==
  /\ web.method = "none"
  /\ \E name \in LoginNames, sent \in Sendable, fails \in BOOLEAN :
    LET passed == OnRequest(LoginRoute, sent, flags.siteEnabled)
        outcome == LoginPOST(name, jar, flags.notionBackend, fails)
    IN /\ web' = Exchange("POST", LoginRoute, sent, name, fails, passed, outcome)
       /\ jar' = IF passed.next THEN outcome.cookie ELSE jar
       /\ issued' = IF passed.next /\ outcome.response.status = 200
                      THEN issued \cup {outcome.cookie}
                      ELSE issued
       /\ UNCHANGED <<flags, rsvpStore>>
       /\ UNCHANGED <<calendar, library>>

LogoutRequest ==
  /\ web.method = "none"
  /\ \E method \in {"GET", "POST"}, sent \in Sendable :
    LET passed == OnRequest(LogoutRoute, sent, flags.siteEnabled)
        outcome == Logout(jar)
    IN /\ web' = Exchange(method, LogoutRoute, sent, <<>>, FALSE, passed, outcome)
       /\ jar' = IF passed.next THEN outcome.cookie ELSE jar
       /\ UNCHANGED <<flags, rsvpStore, issued>>
       /\ UNCHANGED <<calendar, library>>

RsvpPostRequest ==
  /\ web.method = "none"
  /\ \E json \in JsonBodies, sent \in Sendable, fails \in BOOLEAN :
    LET passed == OnRequest(RsvpRoute, sent, flags.siteEnabled)
        outcome == RsvpPOST(sent, json, rsvpStore, fails)
    IN /\ web' = Exchange("POST", RsvpRoute, sent, json, fails, passed, outcome)
       /\ rsvpStore' = IF passed.next THEN outcome.store ELSE rsvpStore
       /\ UNCHANGED <<flags, jar, issued>>
       /\ UNCHANGED <<calendar, library>>

RsvpGetRequest ==
  /\ web.method = "none"
  /\ \E event \in EventParams, sent \in Sendable, fails \in BOOLEAN :
    LET passed == OnRequest(RsvpRoute, sent, flags.siteEnabled)
        outcome == RsvpGET(sent, event, rsvpStore, fails)
    IN /\ web' = Exchange("GET", RsvpRoute, sent, event, fails, passed, outcome)
       /\ rsvpStore' = IF passed.next THEN outcome.store ELSE rsvpStore
       /\ UNCHANGED <<flags, jar, issued>>
       /\ UNCHANGED <<calendar, library>>

RsvpDeleteRequest ==
  /\ web.method = "none"
  /\ \E event \in EventParams, sent \in Sendable, fails \in BOOLEAN :
    LET passed == OnRequest(RsvpRoute, sent, flags.siteEnabled)
        outcome == RsvpDELETE(sent, event, rsvpStore, fails)
    IN /\ web' = Exchange("DELETE", RsvpRoute, sent, event, fails, passed, outcome)
       /\ rsvpStore' = IF passed.next THEN outcome.store ELSE rsvpStore
       /\ UNCHANGED <<flags, jar, issued>>
       /\ UNCHANGED <<calendar, library>>

\* the response reaches the browser
Settle ==
  /\ web.method # "none"
  /\ web' = IF web.pathname = LogoutRoute /\ web.handled /\ web.jarBefore # NoCookie
              THEN LoggedOut
              ELSE Quiet
  /\ UNCHANGED <<flags, jar, rsvpStore, issued>>
  /\ UNCHANGED <<calendar, library>>

(***************************************************************************)
(* Specifications.  Spec: the token codec over every identifier of the     *)
(* bounds.  SpecFeed: the codec and the feed endpoint for the guests that  *)
(* have a page in the workspace.  SpecICS: the feed builder.  SpecSite:    *)
(* one browser and the site, under each setting of the feature flags.      *)
(***************************************************************************)
InitCalendar ==
  /\ held = NoToken
  /\ last = Idle
  /\ dayDateCache = [d \in DayKeys |-> Absent]
  /\ now = 1
  /\ feedIn = <<>>
  /\ feedOut = <<>>
  /\ feedAgain = <<>>

\* the modules of src/lib as loaded: empty caches, no call made
InitLibrary ==
  /\ guestCache = Null
  /\ guestCachePromise = 0
  /\ fetches = <<>>
  /\ calls = <<>>
  /\ clears = 0
  /\ eventCatalogCache = [wedding \in {"nyc", "france"} |-> Null]
  /\ catalogCalls = <<>>
  /\ submits = <<>>

InitCommon ==
  /\ InitCalendar
  /\ InitLibrary
  /\ flags = [siteEnabled |-> TRUE, notionBackend |-> TRUE]
  /\ jar = NoCookie
  /\ rsvpStore = <<>>
  /\ web = Quiet
  /\ issued = {}

Init ==
  /\ secret \in Secrets
  /\ InitCommon

Next ==
  \/ \E g \in Identifiers, track \in BOOLEAN : Issue(g, track)
  \/ VerifyHeld
  \/ VerifyEncodedMutation
  \/ VerifySignatureMutation
  \/ VerifySignatureLength
  \/ VerifyEncodedInsertion
  \/ VerifyMalformed
  \/ RotateSecret
  \/ Return

Spec == Init /\ [][Next]_vars

NextFeed ==
  \/ \E g \in NotionGuests, track \in BOOLEAN : Issue(g, track)
  \/ VerifyHeld
  \/ VerifyEncodedMutation
  \/ VerifySignatureMutation
  \/ VerifySignatureLength
  \/ VerifyEncodedInsertion
  \/ VerifyMalformed
  \/ RotateSecret
  \/ FeedRequest
  \/ Return

SpecFeed == Init /\ [][NextFeed]_vars

InitICS ==
  /\ secret = 1
  /\ InitCommon

NextICS ==
  \/ BuildFeed
  \/ BuildFeedAgain
  \/ SendFeed
  \/ Tick

SpecICS == InitICS /\ [][NextICS]_vars

InitSite ==
  /\ secret = 1
  /\ InitCalendar
  /\ InitLibrary
  /\ flags \in [siteEnabled : BOOLEAN, notionBackend : BOOLEAN]
  /\ jar = NoCookie
  /\ rsvpStore = <<>>
  /\ web = Quiet
  /\ issued = {}

NextSite ==
  \/ PageRequest
  \/ LoginRequest
  \/ LogoutRequest
  \/ RsvpPostRequest
  \/ RsvpGetRequest
  \/ RsvpDeleteRequest
  \/ Settle

SpecSite == InitSite /\ [][NextSite]_vars

(***************************************************************************)
(* submitRSVP of src/lib/notion.ts, call by call.  A call awaits the       *)
(* workspace twice: the query of getLatestRSVP, then pages.update or       *)
(* pages.create.  Other calls run between the two.  Each entry of submits  *)
(* is one call: its arguments, where it stands, what the query gave it and *)
(* what it returned.  The order of the pages in the store stands for the   *)
(* order of their Submitted At.                                            *)
(***************************************************************************)
MaxSubmits == 2

guestsLib == <<guestCache, guestCachePromise, fetches, calls, clears>>
catalogLib == <<eventCatalogCache, catalogCalls>>

SubmitGuests == {"g1", "g3"}

Submissions ==
  { [event |-> event, guestsAttending |-> Some(list)] :
      event \in ValidEvents, list \in Attendances }

\* submitRSVP(guestId, submission) is called and reaches its query
SubmitRSVPCall ==
  /\ Len(submits) < MaxSubmits
  /\ \E guestId \in SubmitGuests, submission \in Submissions :
       submits' = Append(submits, [guestId |-> guestId, submission |-> submission,
                                   pc |-> "query", existingRSVP |-> Null,
                                   result |-> Null])
  /\ UNCHANGED <<calendar, site, guestsLib, catalogLib>>

\* line 430: the query of getLatestRSVP is answered from the pages there are
SubmitQuery ==
  /\ \E i \in 1..Len(submits) :
       /\ submits[i].pc = "query"
       /\ submits' = [submits EXCEPT
            ![i].pc = "write",
            ![i].existingRSVP = GetLatestRSVP(rsvpStore, submits[i].guestId,
                                              submits[i].submission.event)]
  /\ UNCHANGED <<calendar, site, guestsLib, catalogLib>>

\* lines 468-482: the page found is updated, or a page is created
SubmitWrite ==
  /\ \E i \in 1..Len(submits) :
       /\ submits[i].pc = "write"
       /\ rsvpStore' = WriteRSVP(rsvpStore, submits[i].existingRSVP,
                                 RsvpProperties(submits[i].guestId, submits[i].submission))
       /\ submits' = [submits EXCEPT
            ![i].pc = "done",
            ![i].result = Some(WrittenId(rsvpStore, submits[i].existingRSVP))]
  /\ UNCHANGED <<calendar, flags, jar, web, issued, guestsLib, catalogLib>>

\* a call to the workspace rejects: the await throws and submitRSVP rejects
SubmitFails ==
  /\ \E i \in 1..Len(submits) :
       /\ submits[i].pc \in {"query", "write"}
       /\ submits' = [submits EXCEPT ![i].pc = "failed", ![i].result = Thrown]
  /\ UNCHANGED <<calendar, site, guestsLib, catalogLib>>

NextRSVP ==
  \/ SubmitRSVPCall
  \/ SubmitQuery
  \/ SubmitWrite
  \/ SubmitFails

SpecRSVP == InitICS /\ [][NextRSVP]_vars

(***************************************************************************)
(* The guest cache of src/lib/notion.ts.  A fetch is one call of           *)
(* _fetchAllGuests, numbered in the order of their start; the array it     *)
(* produces is named by its number.  guestCache is Null or Some(k), the    *)
(* array of fetch k; guestCachePromise is 0 for null or k, the promise     *)
(* `_fetchAllGuests().catch(...)` of fetch k.  A call of fetchAllGuests    *)
(* returns a promise: already resolved with the cached array, or following *)
(* guestCachePromise.  The .catch handler runs in the microtask after the  *)
(* rejection, before any other call.                                       *)
(***************************************************************************)
MaxFetches == 3
MaxCalls == 4
MaxClears == 2

\* the promise a call follows and the fetch it starts, neither, or the cache
FetchAllGuests_NoDedup(cache, promise, next) ==
  IF cache # Null
    THEN [result |-> cache, on |-> 0, starts |-> FALSE]
    ELSE [result |-> Null, on |-> next, starts |-> TRUE]

\* fetchAllGuests, lines 109-117: what a call returns when the cache, the
\* in-flight promise and the number of the next fetch are as given
FetchAllGuestsReturn(cache, promise, next) ==
  IF cache # Null
    THEN [result |-> cache, on |-> 0, starts |-> FALSE]
  ELSE IF promise # 0
    THEN [result |-> Null, on |-> promise, starts |-> FALSE]
  ELSE [result |-> Null, on |-> next, starts |-> TRUE]

\* the calls following fetch k settle as the fetch did
SettleCalls(k, result) ==
  [c \in 1..Len(calls) |->
     IF calls[c].on = k THEN [calls[c] EXCEPT !.result = result] ELSE calls[c]]

\* fetchAllGuests() is called
FetchAllGuestsCall ==
  /\ Len(calls) < MaxCalls
  /\ LET returned == FetchAllGuestsReturn(guestCache, guestCachePromise, Len(fetches) + 1)
     IN /\ returned.starts => Len(fetches) < MaxFetches
        /\ calls' = Append(calls, [result |-> returned.result, on |-> returned.on])
        /\ fetches' = IF returned.starts
                        THEN Append(fetches, [state |-> "pending", epoch |-> clears])
                        ELSE fetches
        /\ guestCachePromise' = IF returned.starts THEN returned.on ELSE guestCachePromise
  /\ UNCHANGED <<calendar, site, guestCache, clears, catalogLib, submits>>

\* lines 187-188: a fetch has read its last page; it stores and returns its array
FetchSucceeds ==
  /\ \E k \in 1..Len(fetches) :
       /\ fetches[k].state = "pending"
       /\ fetches' = [fetches EXCEPT ![k].state = "fulfilled"]
       /\ guestCache' = Some(k)
       /\ calls' = SettleCalls(k, Some(k))
  /\ UNCHANGED <<calendar, site, guestCachePromise, clears, catalogLib, submits>>

\* a fetch throws; the handler of lines 112-116 clears the promise and rethrows
FetchFails ==
  /\ \E k \in 1..Len(fetches) :
       /\ fetches[k].state = "pending"
       /\ fetches' = [fetches EXCEPT ![k].state = "rejected"]
       /\ guestCachePromise' = 0
       /\ calls' = SettleCalls(k, Thrown)
  /\ UNCHANGED <<calendar, site, guestCache, clears, catalogLib, submits>>

\* clearGuestCache(), lines 194-197
ClearGuestCache ==
  /\ clears < MaxClears
  /\ guestCache' = Null
  /\ guestCachePromise' = 0
  /\ clears' = clears + 1
  /\ UNCHANGED <<calendar, site, fetches, calls, catalogLib, submits>>

NextGuests ==
  \/ FetchAllGuestsCall
  \/ FetchSucceeds
  \/ FetchFails
  \/ ClearGuestCache

SpecGuests == InitICS /\ [][NextGuests]_vars

(***************************************************************************)
(* The event catalog cache of src/lib/notion.ts.  Each entry of            *)
(* catalogCalls is one call of getEventCatalog: its wedding, whether it    *)
(* found the cache filled or went on to query the catalog, where it stands *)
(* and whether clearEventCache has run since it was made.  The array a     *)
(* call builds is named by the number of the call.                         *)
(***************************************************************************)
MaxCatalogCalls == 3

\* getEventCatalog(wedding) is called: lines 207-209, or on to the first query
GetEventCatalogCall ==
  /\ Len(catalogCalls) < MaxCatalogCalls
  /\ \E wedding \in {"nyc", "france"} :
       catalogCalls' = Append(catalogCalls,
         IF eventCatalogCache[wedding] # Null
           THEN [wedding |-> wedding, queried |-> FALSE, state |-> "done",
                 result |-> eventCatalogCache[wedding], cleared |-> FALSE]
           ELSE [wedding |-> wedding, queried |-> TRUE, state |-> "querying",
                 result |-> Null, cleared |-> FALSE])
  /\ UNCHANGED <<calendar, site, guestsLib, eventCatalogCache, submits>>

\* lines 279-280: a call has read its last page; it stores and returns its array
CatalogQueryDone ==
  /\ \E i \in 1..Len(catalogCalls) :
       /\ catalogCalls[i].state = "querying"
       /\ eventCatalogCache' = [eventCatalogCache EXCEPT ![catalogCalls[i].wedding] = Some(i)]
       /\ catalogCalls' = [catalogCalls EXCEPT ![i].state = "done", ![i].result = Some(i)]
  /\ UNCHANGED <<calendar, site, guestsLib, submits>>

\* a query of the call rejects: the call rejects, the cache is as it was
CatalogQueryFails ==
  /\ \E i \in 1..Len(catalogCalls) :
       /\ catalogCalls[i].state = "querying"
       /\ catalogCalls' = [catalogCalls EXCEPT ![i].state = "failed", ![i].result = Thrown]
  /\ UNCHANGED <<calendar, site, guestsLib, eventCatalogCache, submits>>

\* clearEventCache(), lines 621-624
ClearEventCache ==
  /\ eventCatalogCache' = [wedding \in {"nyc", "france"} |-> Null]
  /\ catalogCalls' = [i \in 1..Len(catalogCalls) |-> [catalogCalls[i] EXCEPT !.cleared = TRUE]]
  /\ UNCHANGED <<calendar, site, guestsLib, submits>>

NextCatalog ==
  \/ GetEventCatalogCall
  \/ CatalogQueryDone
  \/ CatalogQueryFails
  \/ ClearEventCache

SpecCatalog == InitICS /\ [][NextCatalog]_vars

(***************************************************************************)
(* Properties of the token codec (Spec).                                   *)
(***************************************************************************)
\* a string with no unpaired surrogate code unit
WellFormed(str) ==
  \A i \in 1..Len(str) :
    /\ IsHighSurrogate(str[i]) => (i < Len(str) /\ IsLowSurrogate(str[i + 1]))
    /\ IsLowSurrogate(str[i]) => (i > 1 /\ IsHighSurrogate(str[i - 1]))

\* the last operation verified the stored link under the secret that issued it
RoundTrip == last.op = "verify" /\ last.kind = "held" /\ last.issuer = secret

\* C1 as stated: with a configured secret, verifyToken(generateToken(g)) returns g
\* for every identifier g, the empty string included.
C1_RoundTripEveryIdentifier == RoundTrip => last.result = Some(last.guest)

\* C1, amended: with a configured secret, verifyToken(generateToken(g)) returns g
\* for every non-empty identifier g that has no unpaired surrogate ('.' and
\* non-ASCII characters included).
C1_RoundTrip ==
  (RoundTrip /\ last.guest # <<>> /\ WellFormed(last.guest)) => last.result = Some(last.guest)

\* a round trip of the non-ASCII identifier U+1F600 returned it
C1_Witness ==
  RoundTrip /\ last.guest = <<55357, 56832>> /\ last.result = Some(<<55357, 56832>>)

\* C2: a token with one character of its encoded segment replaced by a different
\* character does not verify.
C2_EncodedMutationInvalid ==
  (last.op = "verify" /\ last.kind = "encoded") => last.result = Null

\* C3: a token with one character of its signature replaced by a different
\* character, or with a signature of another length, does not verify.
C3_SignatureMutationInvalid ==
  (last.op = "verify" /\ last.kind \in {"signature", "siglen"}) => last.result = Null

\* a link that verifies as issued was rejected with one signature character replaced
C3_Witness ==
  /\ last.op = "verify" /\ last.kind = "signature"
  /\ last.issuer = secret /\ last.guest # <<>> /\ WellFormed(last.guest)
  /\ Len(SignatureOf(last.input)) = HmacLen
  /\ last.result = Null

\* the first segment of a token holds a character outside the base64url alphabet
HasOutsideChar(token) ==
  LET first == IF IndexOf(token, DOT) = -1 THEN token ELSE EncodedOf(token) IN
    \E i \in 1..Len(first) : ~IsBase64UrlChar(first[i])

\* C4: verifyToken returns null for every string whose first segment contains a
\* character outside the base64url alphabet, whatever the signature.
C4_OutsideAlphabetInvalid ==
  (last.op = "verify" /\ HasOutsideChar(last.input)) => last.result = Null

\* C5: verifyToken never throws, and returns null for a string with no '.', for an
\* empty encoded or signature segment, and for every input when no secret is set.
C5_NeverThrows ==
  last.op = "verify" =>
    /\ last.result.tag # "throw"
    /\ ( \/ IndexOf(last.input, DOT) = -1
         \/ EncodedOf(last.input) = <<>>
         \/ SignatureOf(last.input) = <<>>
         \/ secret = 0 ) => last.result = Null

\* the stored link was verified after the secret had been removed: null, no throw
C5_Witness ==
  /\ last.op = "verify" /\ last.kind = "held" /\ last.issuer # 0
  /\ secret = 0
  /\ last.result = Null

(***************************************************************************)
(* Properties of the codec and the endpoint (SpecFeed).                    *)
(***************************************************************************)
\* C6: in every state, whatever operations came before, the stored link verifies
\* to its guest exactly when the current secret is the one that issued it; every
\* recorded verification or feed request of it says the same, and a feed request
\* with it after a change of secret is answered as not found.
C6_ValidityFollowsSecret ==
  /\ held.secret # 0 =>
       VerifyToken(held.token) = (IF secret = held.secret THEN Some(held.guest) ELSE Null)
  /\ (last.op \in {"verify", "GET"} /\ last.kind = "held") =>
       /\ last.result = (IF secret = last.issuer THEN Some(last.guest) ELSE Null)
       /\ (last.op = "GET" /\ secret # last.issuer) => last.resp = NotFound

\* a feed had been served, the secret was then changed to another one, and a feed
\* request with the stored link was answered 404
C6_Witness ==
  /\ last.op = "GET" /\ last.kind = "held"
  /\ secret # 0 /\ last.issuer # 0 /\ secret # last.issuer
  /\ \E d \in DayKeys : dayDateCache[d].tag = "value"
  /\ last.resp.status = 404

\* C7: every feed request whose token fails verification gets one and the same
\* response, status 404 with body 'Not found'.
C7_InvalidTokenNotFound ==
  (last.op = "GET" /\ last.result.tag # "value") =>
    /\ last.resp = NotFound
    /\ last.resp.status = 404 /\ last.resp.body = "Not found"

\* a feed request with a tampered signature on a link that is otherwise valid: 404
C7_Witness ==
  /\ last.op = "GET" /\ last.kind = "signature"
  /\ last.issuer = secret
  /\ last.resp.status = 404

\* the keys of the occurrences a guest is invited to that have a date
DatedInvitations(guestId) ==
  LET keys == EventsInvited(guestId) IN
    {keys[i] : i \in {j \in 1..Len(keys) :
                        /\ EventPages[keys[j]].dayId # ""
                        /\ DayPages[EventPages[keys[j]].dayId].tag = "value"}}

HasEvent(feed, key) ==
  \E i \in 1..Len(feed) : feed[i] = Line("UID:", EventPages[key].id \o UidSuffix)

\* C8: a feed request with a valid token is all-or-nothing: if a page retrieval
\* made for it fails the response is the generic server error, and a 200 response
\* contains every occurrence the guest is invited to that has a date.
C8_AllOrNothing ==
  (last.op = "GET" /\ last.result.tag = "value") =>
    /\ last.failed # {} => last.resp = ServerError
    /\ last.resp.status = 200 =>
         \A key \in DatedInvitations(last.result.val) : HasEvent(last.resp.feed, key)

(***************************************************************************)
(* Properties of the feed builder (SpecICS).                               *)
(***************************************************************************)
TwoDigits(n) == <<48 + (n \div 10), 48 + (n % 10)>>

FourDigits(n) == TwoDigits(n \div 100) \o TwoDigits(n % 100)

\* the year, month and day a "YYYY-MM-DD" text denotes
DateOf(d) ==
  [year |-> (d[1] - 48) * 1000 + (d[2] - 48) * 100 + (d[3] - 48) * 10 + (d[4] - 48),
   month |-> (d[6] - 48) * 10 + (d[7] - 48),
   day |-> (d[9] - 48) * 10 + (d[10] - 48)]

IsLeap(y) == (y % 4 = 0 /\ y % 100 # 0) \/ y % 400 = 0

DaysInMonth(y, m) ==
  IF m = 2 THEN (IF IsLeap(y) THEN 29 ELSE 28)
  ELSE IF m \in {4, 6, 9, 11} THEN 30 ELSE 31

NextDay(date) ==
  IF date.day < DaysInMonth(date.year, date.month)
    THEN [date EXCEPT !.day = date.day + 1]
  ELSE IF date.month < 12
    THEN [date EXCEPT !.day = 1, !.month = date.month + 1]
  ELSE [year |-> date.year + 1, month |-> 1, day |-> 1]

LocalDateTime(date, hour, minute) ==
  FourDigits(date.year) \o TwoDigits(date.month) \o TwoDigits(date.day) \o <<84>>
    \o TwoDigits(hour) \o TwoDigits(minute) \o <<48, 48>>

\* the local date-time two hours after date at hour:minute
TwoHoursLater(date, hour, minute) ==
  IF hour + 2 < 24 THEN LocalDateTime(date, hour + 2, minute)
  ELSE LocalDateTime(NextDay(date), hour + 2 - 24, minute)

StartHeads ==
  {"DTSTART;VALUE=DATE:", "DTSTART;TZID=America/New_York:", "DTSTART;TZID=Europe/Paris:"}

EndHeads ==
  {"DTEND;VALUE=DATE:", "DTEND;TZID=America/New_York:", "DTEND;TZID=Europe/Paris:"}

LinesWithHead(feed, heads) == SelectSeq(feed, LAMBDA l : l.head \in heads)

\* buildICS was called on one occurrence that has a date
SingleDated == Len(feedIn) = 1 /\ feedIn[1].date \in {Some(d) : d \in Dates}

\* C9: for an occurrence with a date and a time that parses to hour h (0-23) and
\* minute m, DTSTART and DTEND carry the same TZID, DTSTART is the date at h:m and
\* DTEND is the valid local date-time exactly two hours later, for every h.
C9_TimedBlock ==
  \A c \in TimedCases :
    (SingleDated /\ feedIn[1].time = Some(c.text)) =>
      LET tz == IF feedIn[1].wedding = "nyc" THEN "America/New_York" ELSE "Europe/Paris"
          date == DateOf(feedIn[1].date.val)
      IN /\ LinesWithHead(feedOut, StartHeads)
              = << Line("DTSTART;TZID=" \o tz \o ":", LocalDateTime(date, c.hour, c.minute)) >>
         /\ LinesWithHead(feedOut, EndHeads)
              = << Line("DTEND;TZID=" \o tz \o ":", TwoHoursLater(date, c.hour, c.minute)) >>

\* the time of the occurrence is absent, empty, or matches neither time form
NoTime(event) ==
  event.time \in {Null, Some(<<>>)} \cup {Some(t) : t \in UnparseableTimes}

\* C10: for an occurrence that has a date and whose time is absent or matches
\* neither time form, buildICS emits an all-day block: DTSTART;VALUE=DATE and
\* DTEND;VALUE=DATE, both with the date's YYYYMMDD.
C10_AllDayBlock ==
  (SingleDated /\ NoTime(feedIn[1])) =>
    LET date == DateOf(feedIn[1].date.val)
        ymd == FourDigits(date.year) \o TwoDigits(date.month) \o TwoDigits(date.day)
    IN /\ LinesWithHead(feedOut, StartHeads) = << Line("DTSTART;VALUE=DATE:", ymd) >>
       /\ LinesWithHead(feedOut, EndHeads) = << Line("DTEND;VALUE=DATE:", ymd) >>

\* the occurrence of 2027-05-29 with the time text "6 PM" was rendered all-day
C10_Witness ==
  /\ SingleDated
  /\ feedIn[1].date = Some(<<50, 48, 50, 55, 45, 48, 53, 45, 50, 57>>)
  /\ feedIn[1].time = Some(<<54, 32, 80, 77>>)
  /\ \E i \in 1..Len(feedOut) : feedOut[i] = Line("DTSTART;VALUE=DATE:", <<50, 48, 50, 55, 48, 53, 50, 57>>)

(***************************************************************************)
(* Properties of the feed builder: blocks, envelope, escaping, repeated    *)
(* calls, time parsing, identifiers (SpecICS).                             *)
(***************************************************************************)
\* an optional text that is present and not empty
HasText(opt) == opt \notin {Null, Some(<<>>)}

\* the occurrences of a list that have a date, in order
Dated(events) == SelectSeq(events, LAMBDA e : HasText(e.date))

\* where a given line stands in a document, in order
IndicesOf(feed, line) ==
  SelectSeq([i \in 1..Len(feed) |-> i], LAMBDA i : feed[i] = line)

BlockStarts(feed) == IndicesOf(feed, Line("BEGIN:VEVENT", <<>>))

BlockEnds(feed) == IndicesOf(feed, Line("END:VEVENT", <<>>))

\* the values of the lines with a given head, in order
ValuesOf(feed, head) ==
  LET found == SelectSeq(feed, LAMBDA l : l.head = head) IN
    [i \in 1..Len(found) |-> found[i].val]

\* the VEVENT blocks are well nested and there is one per dated occurrence
BlocksMatch(feed, events) ==
  LET starts == BlockStarts(feed)
      ends == BlockEnds(feed)
  IN /\ Len(starts) = Len(Dated(events))
     /\ Len(ends) = Len(starts)
     /\ \A k \in 1..Len(starts) :
          /\ starts[k] < ends[k]
          /\ k < Len(starts) => ends[k] < starts[k + 1]

C12_EmptyCalendarWellFormed ==
  (feedOut # <<>> /\ Dated(feedIn) = <<>>) =>
    /\ feedOut[1] = Line("BEGIN:VCALENDAR", <<>>)
    /\ feedOut[Len(feedOut)] = Line("END:VCALENDAR", <<>>)
    /\ BlockStarts(feedOut) = <<>>
    /\ \A i \in 1..Len(feedOut) : feedOut[i] # Line("", <<>>)

\* reading an escaped text back by the rules of RFC 5545 3.3.11
RECURSIVE UnescapeICS(_)
UnescapeICS(text) ==
  IF text = <<>> THEN <<>>
  ELSE IF Head(text) = 92 /\ Len(text) >= 2 /\ text[2] \in {92, 59, 44}
    THEN <<text[2]>> \o UnescapeICS(SubSeq(text, 3, Len(text)))
  ELSE IF Head(text) = 92 /\ Len(text) >= 2 /\ text[2] \in {110, 78}
    THEN <<10>> \o UnescapeICS(SubSeq(text, 3, Len(text)))
  ELSE <<Head(text)>> \o UnescapeICS(Tail(text))

\* C13: for every text of backslashes, semicolons, commas, newlines and ordinary
\* characters, un-escaping what escapeICS made of it gives the text back, and the
\* escaped text holds no raw newline.
C13_EscapeRoundTrip ==
  (Len(feedIn) = 1 /\ HasText(feedIn[1].date)) =>
    /\ \E i \in 1..Len(feedOut) :
         /\ feedOut[i].head = "SUMMARY:"
         /\ UnescapeICS(feedOut[i].val) = feedIn[1].name
    /\ HasText(feedIn[1].description) =>
         \E i \in 1..Len(feedOut) :
           /\ feedOut[i].head = "DESCRIPTION:"
           /\ UnescapeICS(feedOut[i].val) = feedIn[1].description.val
    /\ \A i \in 1..Len(feedOut) :
         feedOut[i].head \in {"SUMMARY:", "DESCRIPTION:", "LOCATION:"} =>
           \A j \in 1..Len(feedOut[i].val) : feedOut[i].val[j] # 10

\* the name made of a backslash, the letter n and a newline was escaped and reads back
C13_Witness ==
  /\ Len(feedIn) = 1 /\ HasText(feedIn[1].date)
  /\ feedIn[1].name = <<92, 110, 10>>
  /\ \E i \in 1..Len(feedOut) :
       feedOut[i] = Line("SUMMARY:", <<92, 92, 110, 92, 110>>)

\* C14: two calls of buildICS on the same list give documents that are identical
\* on every line that is not a DTSTAMP line, and the first call changes nothing
\* the second reads.
C14_SameOutputButStamp ==
  feedAgain # <<>> =>
    /\ Len(feedAgain) = Len(feedOut)
    /\ \A i \in 1..Len(feedOut) :
         /\ feedAgain[i].head = feedOut[i].head
         /\ feedOut[i].head # "DTSTAMP:" => feedAgain[i] = feedOut[i]

\* a list with a dated occurrence was rendered twice, at two different times
C14_Witness ==
  /\ feedAgain # <<>>
  /\ Dated(feedIn) # <<>>
  /\ ValuesOf(feedAgain, "DTSTAMP:") # ValuesOf(feedOut, "DTSTAMP:")

AllDigits(text) == \A i \in 1..Len(text) : IsDigit(text[i])

\* H:MM or HH:MM and nothing else
IsForm24(text) ==
  \E hl \in 1..2 :
    /\ Len(text) = hl + 3
    /\ AllDigits(SubSeq(text, 1, hl))
    /\ text[hl + 1] = COLON
    /\ AllDigits(SubSeq(text, hl + 2, hl + 3))

\* H:MM or HH:MM, optional white space, then AM or PM in any letter case
IsForm12(text) ==
  \E hl \in 1..2 :
    /\ Len(text) >= hl + 5
    /\ IsForm24(SubSeq(text, 1, hl + 3))
    /\ \A i \in (hl + 4)..(Len(text) - 2) : IsSpace(text[i])
    /\ text[Len(text) - 1] \in {65, 97, 80, 112}
    /\ text[Len(text)] \in {77, 109}

DecimalOf(digits) ==
  IF Len(digits) = 1 THEN digits[1] - 48 ELSE (digits[1] - 48) * 10 + (digits[2] - 48)

\* the hour and minute the 12-hour rule gives a text of the 12-hour form
TwelveHourValue(text) ==
  LET hl == IF text[2] = COLON THEN 1 ELSE 2
      h == DecimalOf(SubSeq(text, 1, hl))
      pm == text[Len(text) - 1] \in {80, 112}
  IN [hour |-> IF h = 12 THEN (IF pm THEN 12 ELSE 0) ELSE (IF pm THEN h + 12 ELSE h),
      minute |-> DecimalOf(SubSeq(text, hl + 2, hl + 3))]

\* C15: parseTime of H:MM followed by AM or PM (any letter case) is minute MM and
\* hour 0 for 12 AM, 12 for 12 PM, H+12 for every other PM hour, H for every other
\* AM hour; a text of neither form gives undefined; and buildICS writes a timed
\* block exactly when the time is of one of the two forms.
C15_ParseTime ==
  (Len(feedIn) = 1 /\ feedIn[1].time.tag = "value") =>
    LET text == feedIn[1].time.val IN
      /\ IsForm12(text) => ParseTime(text) = Some(TwelveHourValue(text))
      /\ (~IsForm12(text) /\ ~IsForm24(text)) => ParseTime(text) = Null
      /\ HasText(feedIn[1].date) =>
           \E i \in 1..Len(feedOut) :
             /\ feedOut[i].head \in StartHeads
             /\ IF IsForm12(text)
                  THEN /\ feedOut[i].head # "DTSTART;VALUE=DATE:"
                       /\ SubSeq(feedOut[i].val, 10, 13)
                            = TwoDigits(TwelveHourValue(text).hour)
                                \o TwoDigits(TwelveHourValue(text).minute)
                  ELSE (feedOut[i].head = "DTSTART;VALUE=DATE:") <=> ~IsForm24(text)

\* "12:00 am" on 2026-10-11 was rendered as a block starting at midnight
C15_Witness ==
  /\ Len(feedIn) = 1
  /\ feedIn[1].time = Some(<<49, 50, 58, 48, 48, 32, 97, 109>>)
  /\ \E i \in 1..Len(feedOut) :
       /\ feedOut[i].head \in StartHeads
       /\ feedOut[i].val = <<50, 48, 50, 54, 49, 48, 49, 49, 84, 48, 48, 48, 48, 48, 48>>

\* the lines of the k-th VEVENT block of a document
BlockLines(feed, k) == SubSeq(feed, BlockStarts(feed)[k], BlockEnds(feed)[k])

\* C16: every VEVENT block has exactly one UID line, the occurrence id followed by
\* '@sargaux.com'; an occurrence has the same UID in a second pass; occurrences
\* with different ids have different UIDs; and all blocks of a pass carry one and
\* the same DTSTAMP value.
C16_StableUidSharedStamp ==
  feedOut # <<>> =>
    LET dated == Dated(feedIn)
        stamps == ValuesOf(feedOut, "DTSTAMP:")
    IN /\ \A k \in 1..Len(BlockStarts(feedOut)) :
            /\ ValuesOf(BlockLines(feedOut, k), "UID:") = << dated[k].id \o UidSuffix >>
            /\ Len(ValuesOf(BlockLines(feedOut, k), "DTSTAMP:")) = 1
       /\ \A i, j \in 1..Len(stamps) : stamps[i] = stamps[j]
       /\ \A i, j \in 1..Len(dated) :
            dated[i].id # dated[j].id =>
              ValuesOf(feedOut, "UID:")[i] # ValuesOf(feedOut, "UID:")[j]
       /\ feedAgain # <<>> => ValuesOf(feedAgain, "UID:") = ValuesOf(feedOut, "UID:")

\* two dated occurrences with different ids were rendered in two passes at
\* different times
C16_Witness ==
  /\ Len(Dated(feedIn)) = 2
  /\ feedIn[1].id # feedIn[2].id
  /\ feedAgain # <<>> /\ feedAgain # feedOut
  /\ Len(ValuesOf(feedOut, "DTSTAMP:")) = 2

(***************************************************************************)
(* Properties of the RSVP endpoints and of the middleware (SpecSite).      *)
(***************************************************************************)
\* the cookie decodes to a session payload with a guest name
HoldsSession(cookie) ==
  /\ cookie.tag = "session"
  /\ cookie.payload.guest.tag = "value"
  /\ cookie.payload.guest.val # <<>>
  /\ cookie.payload.eventInvitations.tag = "value"

\* ... and with the guest's page id
HoldsGuestSession(cookie) == HoldsSession(cookie) /\ cookie.payload.notionId # ""

\* the body is a JSON object with a known event and both arrays
ValidSubmission(json) ==
  /\ json.tag = "value"
  /\ json.val.event \in {"nyc", "france"}
  /\ json.val.guestsAttending.tag = "value"
  /\ json.val.eventsAttending.tag = "value"

\* ids of the live (not archived) records of a guest for an event
LiveRecords(store, guestId, event) ==
  { store[i].id : i \in { j \in 1..Len(store) :
                            /\ ~store[j].archived
                            /\ store[j].guest = guestId
                            /\ store[j].event = (IF event = "nyc" THEN "NYC" ELSE "France") } }

\* the exchange is a request to /api/rsvp that reached its handler
RsvpExchange(method) ==
  web.method = method /\ web.pathname = RsvpRoute /\ web.handled

\* C17: a POST /api/rsvp by a guest with a session and a well-formed body, while the
\* workspace answers, succeeds with the id of the guest's one live record for the
\* event: a submission that finds a live record updates it and returns its id, no
\* second record is created, and no guest has two live records for one event.
C17_ResubmissionUpdates ==
  /\ \A guestId \in {"g1", "g2", "g3", "g4"}, event \in {"nyc", "france"} :
       Cardinality(LiveRecords(rsvpStore, guestId, event)) <= 1
  /\ (RsvpExchange("POST") /\ HoldsGuestSession(web.sent) /\ ValidSubmission(web.input) /\ ~web.fails) =>
       LET guestId == web.sent.payload.notionId
           event == web.input.val.event
           before == LiveRecords(web.before, guestId, event)
       IN /\ web.response.status = 200
          /\ LiveRecords(rsvpStore, guestId, event) = {web.response.body.responseId}
          /\ before # {} => /\ web.response.body.responseId \in before
                            /\ Len(rsvpStore) = Len(web.before)

\* C18: a DELETE /api/rsvp by a guest with a session, for a known event, while the
\* workspace answers, is answered 404 with success false when the guest has no live
\* record for the event, and 200 when it archived one; and a GET by a guest with
\* no live record for the event is answered 200 with rsvp null.
C18_DeleteThenEmpty ==
  /\ (RsvpExchange("DELETE") /\ HoldsGuestSession(web.sent) /\ web.input \in {"nyc", "france"} /\ ~web.fails) =>
       LET guestId == web.sent.payload.notionId
           before == LiveRecords(web.before, guestId, web.input)
           after == LiveRecords(rsvpStore, guestId, web.input)
       IN IF before = {}
            THEN web.response.status = 404 /\ web.response.body.success = FALSE /\ rsvpStore = web.before
            ELSE web.response.status = 200 /\ after # before /\ after \subseteq before
  /\ (RsvpExchange("GET") /\ HoldsGuestSession(web.sent) /\ web.input \in {"nyc", "france"} /\ ~web.fails) =>
       (LiveRecords(rsvpStore, web.sent.payload.notionId, web.input) = {} =>
          web.response.status = 200 /\ web.response.body.rsvp = Null)

\* C19: a POST /api/rsvp writes nothing unless the cookie holds a session with a
\* page id and the body is a JSON object with event nyc or france and array-valued
\* guestsAttending and eventsAttending; without a cookie the answer is 401
\* 'Unauthorized'; with a session, each failed validation is answered 400 and the
\* store is unchanged.
C19_PostValidates ==
  RsvpExchange("POST") =>
    /\ rsvpStore # web.before => HoldsGuestSession(web.sent) /\ ValidSubmission(web.input)
    /\ web.sent = NoCookie => web.response.status = 401 /\ web.response.body.error = "Unauthorized"
    /\ (HoldsSession(web.sent) /\ ~(HoldsGuestSession(web.sent) /\ ValidSubmission(web.input))) =>
         web.response.status = 400 /\ rsvpStore = web.before

\* the path starts with one of the three protected prefixes
UnderProtected(pathname) ==
  \/ StartsWith(pathname, NycRoute)
  \/ StartsWith(pathname, FranceRoute)
  \/ StartsWith(pathname, RegistryRoute)

\* C20: with the site enabled, a request to a path starting with /nyc, /france or
\* /registry that carries no valid session cookie is redirected to / and its page
\* handler is not invoked; once /api/logout has answered, the browser holds no
\* cookie, so its next request to such a path is redirected too.
C20_ProtectedNeedsSession ==
  /\ (web.method = "GET" /\ flags.siteEnabled /\ UnderProtected(web.pathname)
        /\ ~HoldsSession(web.sent)) =>
       /\ ~web.handled
       /\ web.response.status = 302
       /\ web.response.location = HomePath
  /\ (web.afterLogout /\ web.method \in {"none", "GET"}) => jar = NoCookie

\* right after a log-out that deleted its cookie, the browser asked for /registry
\* with what it holds, which is nothing, and was sent to /
C20_Witness ==
  /\ flags.siteEnabled
  /\ web.method = "GET" /\ web.pathname = RegistryRoute
  /\ web.afterLogout /\ web.sent = jar /\ jar = NoCookie
  /\ ~web.handled /\ web.response.location = HomePath

\* the events a session is for: those of nyc and france its payload lists, both
\* when it lists neither
InvitedTo(cookie) ==
  LET listed == {event \in {"nyc", "france"} :
                   Includes(cookie.payload.eventInvitations.val, event)}
  IN IF listed = {} THEN {"nyc", "france"} ELSE listed

\* C21: with the site enabled, a guest whose session is for one event only is
\* redirected with 302 from every path under the other event's prefix to the own
\* event's landing route (/nyc or /france), that landing route is served to the
\* same guest, and a guest whose session is for both events is served every
\* protected path.
C21_EventLevelAccess ==
  (web.method = "GET" /\ flags.siteEnabled /\ HoldsSession(web.sent)) =>
    /\ (InvitedTo(web.sent) = {"nyc"} /\ StartsWith(web.pathname, FranceRoute)) =>
         ~web.handled /\ web.response.status = 302 /\ web.response.location = NycRoute
    /\ (InvitedTo(web.sent) = {"france"} /\ StartsWith(web.pathname, NycRoute)) =>
         ~web.handled /\ web.response.status = 302 /\ web.response.location = FranceRoute
    /\ (InvitedTo(web.sent) = {"nyc"} /\ web.pathname = NycRoute) => web.handled
    /\ (InvitedTo(web.sent) = {"france"} /\ web.pathname = FranceRoute) => web.handled
    /\ (InvitedTo(web.sent) = {"nyc", "france"} /\ UnderProtected(web.pathname)) => web.handled

\* a guest who logged in and is invited to France only asked for a page under
\* /nyc and was sent to /france
C21_Witness ==
  /\ flags.siteEnabled
  /\ web.method = "GET" /\ web.sent = jar /\ HoldsSession(jar)
  /\ InvitedTo(jar) = {"france"}
  /\ StartsWith(web.pathname, NycRoute) /\ web.pathname # NycRoute
  /\ ~web.handled /\ web.response.location = FranceRoute

(***************************************************************************)
(* Properties of submitRSVP (SpecRSVP).                                    *)
(***************************************************************************)
\* how many listed guests attend, and how many are listed
AttendingCount(list) == Cardinality({i \in 1..Len(list) : list[i].attending})

\* the status the counts of a submission call for, an empty list being Declined
StatusFromCounts(list) ==
  IF AttendingCount(list) = 0 THEN "Declined"
  ELSE IF AttendingCount(list) = Len(list) THEN "Attending"
  ELSE "Partial"

\* the page a call wrote in this step: the last page of the store afterwards
PageWritten == rsvpStore'[Len(rsvpStore')]

WritingCall(i) ==
  /\ i \in 1..Len(submits)
  /\ submits[i].pc = "write"
  /\ submits'[i].pc = "done"

\* C22 as stated: submitRSVP writes Declined when no listed guest attends,
\* Attending when every listed guest attends, Partial when some but not all
\* attend, and no other status.  (An empty list meets the first two at once.)
C22_StatusAsStated ==
  [][\A i \in 1..MaxSubmits : WritingCall(i) =>
       LET list == submits[i].submission.guestsAttending.val
       IN /\ (AttendingCount(list) = 0) => PageWritten.status = "Declined"
          /\ (AttendingCount(list) = Len(list)) => PageWritten.status = "Attending"
          /\ (0 < AttendingCount(list) /\ AttendingCount(list) < Len(list)) =>
                PageWritten.status = "Partial"
          /\ PageWritten.status \in {"Declined", "Attending", "Partial"}]_vars

\* C22: the status submitRSVP writes comes from the counts only: Declined
\* when no listed guest attends (an empty list included), Attending when at
\* least one guest is listed and every listed guest attends, Partial when some
\* but not all attend; no other status is written.
C22_StatusFromCounts ==
  [][\A i \in 1..MaxSubmits : WritingCall(i) =>
       LET list == submits[i].submission.guestsAttending.val
       IN /\ PageWritten.status = StatusFromCounts(list)
          /\ PageWritten.status \in {"Declined", "Attending", "Partial"}
          /\ PageWritten.guest = submits[i].guestId]_vars

\* two calls have completed, one with an empty list; a Partial and a Declined
\* page are stored
C22_Witness ==
  /\ \E page \in {rsvpStore[k] : k \in 1..Len(rsvpStore)} : page.status = "Partial"
  /\ \E page \in {rsvpStore[k] : k \in 1..Len(rsvpStore)} : page.status = "Declined"
  /\ \E i \in 1..Len(submits) : submits[i].submission.guestsAttending.val = <<>>
  /\ \A i \in 1..Len(submits) : submits[i].pc = "done"

\* every call of submitRSVP made so far has completed or rejected
AllSubmitsSettled ==
  /\ Len(submits) >= 2
  /\ \A i \in 1..Len(submits) : submits[i].pc \in {"done", "failed"}

\* C28: once two or more concurrent submitRSVP calls for the same guest and
\* event have all completed, at most one live RSVP record exists for that
\* guest and event.
C28_AtMostOneLive ==
  AllSubmitsSettled =>
    \A guestId \in SubmitGuests, event \in ValidEvents :
      Cardinality(LiveRecords(rsvpStore, guestId, event)) <= 1

(***************************************************************************)
(* Properties of the guest cache (SpecGuests).                             *)
(***************************************************************************)
Pending == {k \in 1..Len(fetches) : fetches[k].state = "pending"}
Rejected == {k \in 1..Len(fetches) : fetches[k].state = "rejected"}

\* C23: while no fetch has failed and clearGuestCache has not been called,
\* the calls of fetchAllGuests have started exactly one upstream fetch, and
\* every call, made before, during or after it, follows it or holds its
\* result, and resolves to its result once it has completed.
C23_OneFetchForAll ==
  (calls # <<>> /\ Rejected = {} /\ clears = 0) =>
    /\ Len(fetches) = 1
    /\ \A c \in 1..Len(calls) :
         /\ calls[c].on = 1 \/ calls[c].result = Some(1)
         /\ calls[c].result \in {Null, Some(1)}
         /\ (fetches[1].state = "fulfilled") => calls[c].result = Some(1)

\* calls made while the fetch ran and after it completed all hold its result
C23_Witness ==
  /\ clears = 0 /\ Rejected = {}
  /\ Len(calls) >= 3
  /\ \E c \in 1..Len(calls) : c > 1 /\ calls[c].on = 1
  /\ \E c \in 1..Len(calls) : calls[c].on = 0
  /\ \A c \in 1..Len(calls) : calls[c].result = Some(1)

\* fetch k rejects in this step
Rejects(k) ==
  /\ k \in 1..Len(fetches)
  /\ fetches[k].state = "pending"
  /\ fetches'[k].state = "rejected"

\* C25: when the in-flight fetch rejects, every caller waiting on it receives
\* the error, the in-flight marker is cleared and the cache is empty, so that
\* the next fetchAllGuests call starts a new upstream fetch.
C25_FailureNotCached ==
  [][\A k \in 1..MaxFetches : Rejects(k) =>
       /\ \A c \in 1..Len(calls) : calls[c].on = k => calls'[c].result = Thrown
       /\ guestCachePromise' = 0
       /\ guestCache' = Null
       /\ FetchAllGuestsReturn(guestCache', guestCachePromise', Len(fetches) + 1).starts]_vars

\* C29: after clearGuestCache the cache only ever holds the result of a fetch
\* started after the clear, and at most one upstream fetch is in progress.
C29_ClearIsolatesFetches ==
  /\ guestCache # Null => fetches[guestCache.val].epoch = clears
  /\ Cardinality(Pending) <= 1

(***************************************************************************)
(* Properties of the event catalog cache (SpecCatalog).                    *)
(***************************************************************************)
\* the calls for a wedding, made since the last clearEventCache, that queried
\* the catalog and did not fail
QueriesSinceClear(wedding) ==
  {i \in 1..Len(catalogCalls) :
     /\ catalogCalls[i].wedding = wedding
     /\ catalogCalls[i].queried
     /\ ~catalogCalls[i].cleared
     /\ catalogCalls[i].state # "failed"}

\* C24: for each wedding w, the getEventCatalog(w) calls that start before the
\* first one completes cause a single upstream query sequence, and after it
\* completes no further query is made for w until clearEventCache: between
\* two clears at most one call for w queries the catalog.
C24_CatalogDeduplicated ==
  \A wedding \in {"nyc", "france"} : Cardinality(QueriesSinceClear(wedding)) <= 1

(***************************************************************************)
(* Properties of the site when it is disabled (SpecSite).                  *)
(***************************************************************************)
ApiPrefix == <<47, 97, 112, 105, 47>>  \* '/api/'

\* C26: when the site is disabled, every request for a page under /nyc,
\* /france or /registry and for every API endpoint is redirected to / with
\* status 302 and is never served.
C26_DisabledSiteServesNothing ==
  (web.method # "none" /\ ~flags.siteEnabled
     /\ (UnderProtected(web.pathname) \/ StartsWith(web.pathname, ApiPrefix))) =>
    /\ ~web.handled
    /\ web.response.status = 302
    /\ web.response.location = HomePath

(***************************************************************************)
(* The range of parseTime (SpecICS).                                       *)
(***************************************************************************)
\* C27: every value parseTime returns for the time of an event of the feed is
\* a wall-clock time: its hour is between 0 and 23 and its minute between 0
\* and 59.
C27_WallClock ==
  \A i \in 1..Len(feedIn) :
    (feedOut # <<>> /\ feedIn[i].time.tag = "value") =>
      LET parsed == ParseTime(feedIn[i].time.val)
      IN parsed.tag = "value" =>
           /\ parsed.val.hour \in 0..23
           /\ parsed.val.minute \in 0..59

(***************************************************************************)
(* Where session cookies come from (SpecSite).                             *)
(***************************************************************************)
\* the request was treated as a guest's: the middleware passed a protected
\* page on with the guest in locals, or an RSVP handler acted for a guest id
TreatedAsGuest ==
  /\ web.method # "none"
  /\ web.handled
  /\ \/ web.method = "GET" /\ flags.siteEnabled /\ UnderProtected(web.pathname)
           /\ web.locals # NoLocals
     \/ web.pathname = RsvpRoute /\ web.response.status \in {200, 404}

\* C30: a request is treated as authenticated as guest G only if the cookie it
\* carries was set by a successful POST /api/login for G; no cookie value that
\* login never issued is accepted.
C30_OnlyIssuedCookies ==
  TreatedAsGuest =>
    /\ web.sent \in issued
    /\ web.method = "GET" => web.locals.guest = web.sent.payload.guest.val

====
